---- MODULE Spec2Model ----
(***************************************************************************)
(* Loblaw inventory consolidation (TeamsTransport/CaseInventory).          *)
(*                                                                         *)
(* Three specifications share this module:                                 *)
(*   SpecHeaders  the column scan of _process_headers                      *)
(*   SpecTitles   the sheet-title assignment of FormatCSV.py and of        *)
(*                create_individual_store_sheets                           *)
(*   Spec         one run of main(): process_folders, consolidation,       *)
(*                save_consolidated_report; then FormatCSV.py on the       *)
(*                report that run wrote                                    *)
(*                                                                         *)
(* Text is a sequence of one-character strings, so that strip, lower,      *)
(* substring search, slicing and split are computed as Python computes     *)
(* them.  A cell value is a record carrying one field: null, str, int or   *)
(* date.                                                                   *)
(***************************************************************************)
EXTENDS Integers, Sequences, FiniteSets, TLC

VARIABLES
    \* _process_headers
    header_row, subheader_row, clean_headers, seen_headers, prev_main_header,
    candidates, hpc,
    \* sheet titles
    stores, titles, existing_titles, t_today, tpc,
    \* main(): the wall clock and the file system it runs on
    clock, clock_steps, folders,
    \* main(): process_folders
    pc, folder_idx, file_idx, df, all_data_frames, processed_files, skipped_files,
    \* main(): the value process_folders returned, the workbook on disk, the exit code
    consolidated, output, exit_code,
    \* history: the frame before the last filter, the clock a step read
    prev_df, step_clock, frame_clocks, save_clock,
    \* history: the file each frame of all_data_frames came from
    frame_sources,
    \* FormatCSV.py: the workbook it formats, the stores still without a sheet
    workbook, todo

hvars == <<header_row, subheader_row, clean_headers, seen_headers,
           prev_main_header, candidates, hpc>>
tvars == <<stores, titles, existing_titles, t_today, tpc>>
pvars == <<clock, clock_steps, folders, pc, folder_idx, file_idx, df, all_data_frames,
           processed_files, skipped_files, consolidated, output, exit_code,
           prev_df, step_clock, frame_clocks, save_clock, frame_sources, workbook, todo>>
vars == <<hvars, tvars, pvars>>

----------------------------------------------------------------------------
(* Text *)

UpperAlphabet == <<"A","B","C","D","E","F","G","H","I","J","K","L","M","N","O","P","Q","R","S","T","U","V","W","X","Y","Z">>
LowerAlphabet == <<"a","b","c","d","e","f","g","h","i","j","k","l","m","n","o","p","q","r","s","t","u","v","w","x","y","z">>
Digits == <<"0","1","2","3","4","5","6","7","8","9">>

Null == [null |-> TRUE]
Str(s) == [str |-> s]
Num(n) == [int |-> n]
IsStr(c) == "str" \in DOMAIN c
IsInt(c) == "int" \in DOMAIN c

RECURSIVE IntToStr(_)
IntToStr(n) ==
    IF n < 10 THEN <<Digits[n + 1]>>
    ELSE IntToStr(n \div 10) \o <<Digits[(n % 10) + 1]>>

LowerChar(c) ==
    IF \E k \in 1..Len(UpperAlphabet) : UpperAlphabet[k] = c
    THEN LowerAlphabet[CHOOSE k \in 1..Len(UpperAlphabet) : UpperAlphabet[k] = c]
    ELSE c

Lower(s) == [k \in 1..Len(s) |-> LowerChar(s[k])]

IsSpace(c) == c \in {" ", "\t", "\n", "\r"}

RECURSIVE LStrip(_)
LStrip(s) == IF Len(s) > 0 /\ IsSpace(s[1]) THEN LStrip(Tail(s)) ELSE s

RECURSIVE RStrip(_)
RStrip(s) ==
    IF Len(s) > 0 /\ IsSpace(s[Len(s)]) THEN RStrip(SubSeq(s, 1, Len(s) - 1)) ELSE s

Strip(s) == RStrip(LStrip(s))

Contains(sub, s) ==
    \E k \in 0..(Len(s) - Len(sub)) : SubSeq(s, k + 1, k + Len(sub)) = sub

\* Python's s[:n] for n >= 0
Prefix(s, n) == SubSeq(s, 1, IF n < Len(s) THEN n ELSE Len(s))

\* str(x) of a non-None cell
CellStr(c) == IF IsStr(c) THEN c.str ELSE IntToStr(c.int)

\* Python truthiness of a cell
Truthy(c) == c # Null /\ (IF IsStr(c) THEN Len(c.str) > 0 ELSE c.int # 0)

----------------------------------------------------------------------------
(* Literals of the source *)

ScheduledAPPT == <<"S","c","h","e","d","u","l","e","d"," ","A","P","P","T">>
ScheduledDate == <<"S","c","h","e","d","u","l","e","d"," ","D","a","t","e">>
ScheduledTime == <<"S","c","h","e","d","u","l","e","d"," ","T","i","m","e">>
UnnamedPrefix == <<"U","n","n","a","m","e","d","_">>
s_date == <<"d","a","t","e">>
s_time == <<"t","i","m","e">>
s_tme == <<"t","m","e">>
s_tim == <<"t","i","m">>

----------------------------------------------------------------------------
(* The variables of a component that a specification does not run *)

HeadersIdle ==
    /\ header_row = <<>>
    /\ subheader_row = <<>>
    /\ clean_headers = <<>>
    /\ seen_headers = <<>>
    /\ prev_main_header = Null
    /\ candidates = <<>>
    /\ hpc = "idle"

TitlesIdle ==
    /\ stores = <<>>
    /\ titles = <<>>
    /\ existing_titles = {}
    /\ t_today = [year |-> 2026, month |-> 11]
    /\ tpc = "idle"

PipelineIdle ==
    /\ clock = [year |-> 2026, month |-> 11]
    /\ clock_steps = 0
    /\ folders = <<>>
    /\ pc = "idle"
    /\ folder_idx = 1
    /\ file_idx = 1
    /\ df = [none |-> TRUE]
    /\ all_data_frames = <<>>
    /\ processed_files = 0
    /\ skipped_files = 0
    /\ consolidated = [none |-> TRUE]
    /\ output = [none |-> TRUE]
    /\ exit_code = 0
    /\ prev_df = [none |-> TRUE]
    /\ step_clock = [year |-> 2026, month |-> 11]
    /\ frame_clocks = <<>>
    /\ save_clock = [year |-> 2026, month |-> 11]
    /\ frame_sources = <<>>
    /\ workbook = [closed |-> TRUE]
    /\ todo = {}

----------------------------------------------------------------------------
(* _process_headers: GenerateMasterCSV.py 170-209 *)

SubheaderStr(subheader) ==
    IF Truthy(subheader) THEN Lower(Strip(CellStr(subheader))) ELSE <<>>

HasTimeToken(s) == Contains(s_time, s) \/ Contains(s_tme, s) \/ Contains(s_tim, s)

\* lines 182-190: the name of a position before the special case, and the
\* carried prev_main_header
MergedCellHeader(i, header, subheader, prev) ==
    IF header = Null
    THEN [header |-> IF prev = Str(ScheduledAPPT) /\ HasTimeToken(SubheaderStr(subheader))
                     THEN ScheduledTime
                     ELSE UnnamedPrefix \o IntToStr(i),
          prev |-> prev]
    ELSE [header |-> Strip(CellStr(header)),
          prev |-> Str(Strip(CellStr(header)))]

\* lines 193-198
ScheduledApptSplit(header, subheader) ==
    IF header = ScheduledAPPT
    THEN IF Contains(s_date, SubheaderStr(subheader)) THEN ScheduledDate
         ELSE IF HasTimeToken(SubheaderStr(subheader)) THEN ScheduledTime
         ELSE header
    ELSE header

\* lines 182-198: the candidate name of position i
CandidateHeader(i, header, subheader, prev) ==
    ScheduledApptSplit(MergedCellHeader(i, header, subheader, prev).header, subheader)

\* DedupName formatting the suffix before the counter is incremented
DedupName_FormatBeforeIncrement(header, seen) ==
    IF header \in DOMAIN seen
    THEN header \o <<"_">> \o IntToStr(seen[header])
    ELSE header

\* lines 201-205: the emitted name
DedupName(header, seen) ==
    IF header \in DOMAIN seen
    THEN header \o <<"_">> \o IntToStr(seen[header] + 1)
    ELSE header

\* lines 201-205: the collision counters after the position
DedupSeen(header, seen) ==
    IF header \in DOMAIN seen
    THEN [seen EXCEPT ![header] = @ + 1]
    ELSE seen @@ (header :> 0)

NoHeaders ==
    [clean |-> <<>>, seen |-> <<>>, prev |-> Null, cand |-> <<>>]

\* one iteration of the loop of line 180, at 0-based index i
HeaderStep(st, i, header, subheader) ==
    LET c == CandidateHeader(i, header, subheader, st.prev) IN
    [clean |-> Append(st.clean, DedupName(c, st.seen)),
     seen |-> DedupSeen(c, st.seen),
     prev |-> MergedCellHeader(i, header, subheader, st.prev).prev,
     cand |-> Append(st.cand, c)]

RECURSIVE ScanHeaders(_, _, _)
ScanHeaders(primary, sub, n) ==
    IF n = 0 THEN NoHeaders
    ELSE HeaderStep(ScanHeaders(primary, sub, n - 1), n - 1, primary[n], sub[n])

\* the list _process_headers returns
ProcessHeaders(primary, sub) == ScanHeaders(primary, sub, Len(primary)).clean

----------------------------------------------------------------------------
(* Dates.  An instant is a number of ticks since day 0 of the proleptic     *)
(* Gregorian calendar (datetime.toordinal), TicksPerDay ticks to a day, so  *)
(* that a value may carry a time of day.                                    *)

TicksPerDay == 2

IsLeap(y) == (y % 4 = 0 /\ y % 100 # 0) \/ y % 400 = 0

DaysInMonth(y, m) ==
    IF m = 2 THEN (IF IsLeap(y) THEN 29 ELSE 28)
    ELSE IF m \in {4, 6, 9, 11} THEN 30 ELSE 31

RECURSIVE DaysBeforeMonth(_, _)
DaysBeforeMonth(y, m) ==
    IF m = 1 THEN 0 ELSE DaysBeforeMonth(y, m - 1) + DaysInMonth(y, m - 1)

DaysBeforeYear(y) ==
    (y - 1) * 365 + ((y - 1) \div 4) - ((y - 1) \div 100) + ((y - 1) \div 400)

\* datetime(y, m, d), at midnight
Datetime(y, m, d) ==
    (DaysBeforeYear(y) + DaysBeforeMonth(y, m) + d) * TicksPerDay

\* t - Timedelta(days=n)
MinusDays(t, n) == t - n * TicksPerDay

\* the .year and .month of an instant within a year of the clock
YearMonthOf(t, near) ==
    CHOOSE ym \in {<<y, m>> : y \in (near - 1)..(near + 1), m \in 1..12} :
       /\ Datetime(ym[1], ym[2], 1) <= t
       /\ t < Datetime(ym[1], ym[2], DaysInMonth(ym[1], ym[2])) + TicksPerDay

\* Series.dt.date followed by pd.to_datetime: the time of day is dropped
DateOnly(t) == t - (t % TicksPerDay)

\* strftime("%m.%y")
RECURSIVE ZeroPad(_, _)
ZeroPad(s, width) == IF Len(s) >= width THEN s ELSE ZeroPad(<<"0">> \o s, width)

MonthDotYear(y, m) ==
    ZeroPad(IntToStr(m), 2) \o <<".">> \o ZeroPad(IntToStr(y % 100), 2)

----------------------------------------------------------------------------
(* Sheet titles: FormatCSV.py 9-42 and GenerateMasterCSV.py 453-502 *)

s_Sheet == <<"S","h","e","e","t">>
s_Master == <<"M","a","s","t","e","r">>

\* INVALID_SHEET_CHARS, FormatCSV.py line 9, and the class of line 471
InvalidSheetChars == {"[", "]", "*", "/", "?", ":", "\\"}

MaxTitleLen == 31

\* re.sub(INVALID_SHEET_CHARS, "-", s)
ReplaceInvalid(s) ==
    [k \in 1..Len(s) |-> IF s[k] \in InvalidSheetChars THEN "-" ELSE s[k]]

\* re.sub(r"[\\/*?:\[\]]", "", s)
RECURSIVE RemoveInvalid(_)
RemoveInvalid(s) ==
    IF Len(s) = 0 THEN <<>>
    ELSE IF s[1] \in InvalidSheetChars THEN RemoveInvalid(Tail(s))
    ELSE <<s[1]>> \o RemoveInvalid(Tail(s))

\* s.strip("'")
RECURSIVE StripApostrophes(_)
StripApostrophes(s) ==
    IF Len(s) > 0 /\ s[1] = "'" THEN StripApostrophes(Tail(s))
    ELSE IF Len(s) > 0 /\ s[Len(s)] = "'" THEN StripApostrophes(SubSeq(s, 1, Len(s) - 1))
    ELSE s

\* f" ({i})"
TitleSuffix(i) == <<" ", "(">> \o IntToStr(i) \o <<")">>

\* the candidate of line 24
SuffixedTitle(base_title, i) ==
    Prefix(base_title, MaxTitleLen - Len(TitleSuffix(i))) \o TitleSuffix(i)

\* the while loop of lines 21-28: the first free suffixed candidate from i on
RECURSIVE FirstFreeTitle(_, _, _)
FirstFreeTitle(base_title, existing, i) ==
    IF SuffixedTitle(base_title, i) \notin existing
    THEN SuffixedTitle(base_title, i)
    ELSE FirstFreeTitle(base_title, existing, i + 1)

\* make_unique_title, lines 11-28: the title returned (it is also added to existing)
MakeUniqueTitle(base_title, existing) ==
    LET title == IF Len(base_title) > 0 THEN base_title ELSE s_Sheet IN
    IF title \notin existing THEN title
    ELSE FirstFreeTitle(base_title, existing, 2)

\* sanitize_sheet_title, lines 35-41: the base handed to make_unique_title
SanitizeBase(name) ==
    LET s == StripApostrophes(ReplaceInvalid(Strip(name))) IN
    IF Len(s) > 0 THEN Prefix(s, MaxTitleLen) ELSE s_Sheet

\* sanitize_sheet_title, lines 30-42
SanitizeSheetTitle(name, existing) == MakeUniqueTitle(SanitizeBase(name), existing)

IsDigit(c) == \E k \in 1..Len(Digits) : Digits[k] = c

\* _extract_simple_store, lines 492-502
ExtractSimpleStore(store_name) ==
    LET hashes == {k \in 1..(Len(store_name) - 1) :
                      store_name[k] = "#" /\ IsDigit(store_name[k + 1])}
    IN IF hashes = {} THEN Strip(store_name)
       ELSE LET start == CHOOSE k \in hashes : \A j \in hashes : k <= j
                spaces == {k \in start..Len(store_name) : IsSpace(store_name[k])}
            IN IF spaces = {} THEN Strip(store_name)
               ELSE LET sp == CHOOSE k \in spaces : \A j \in spaces : k <= j
                    IN Strip(SubSeq(store_name, 1, sp - 1))

\* create_individual_store_sheets, lines 456-462: sheet_suffix
SheetSuffix(today) ==
    LET last_day_prev_month == MinusDays(Datetime(today.year, today.month, 1), 1)
        ym == YearMonthOf(last_day_prev_month, today.year)
    IN MonthDotYear(ym[1], ym[2])

\* create_individual_store_sheets, lines 469-471: the title handed to create_sheet
StoreSheetName(store, today) ==
    Prefix(RemoveInvalid(ExtractSimpleStore(store) \o <<" ">> \o SheetSuffix(today)),
           MaxTitleLen)

----------------------------------------------------------------------------
(* Column names and lists of LoblawInventoryProcessor *)

DestinationStore ==
    <<"D", "e", "s", "t", "i", "n", "a", "t", "i", "o", "n", " ", "S", "t", "o", "r", "e">>
Attention ==
    <<"A", "t", "t", "e", "n", "t", "i", "o", "n">>
PoFromLoblaw ==
    <<"P", "O", " ", "F", "R", "O", "M", " ", "L", "O", "B", "L", "A", "W", " ", "#">>
ShipperOrder ==
    <<"S", "h", "i", "p", "p", "e", "r", " ", "O", "r", "d", "e", "r", " ", "#">>
LineUp ==
    <<"L", "i", "n", "e", " ", "U", "p", " ", "#">>
CaseNo ==
    <<"C", "a", "s", "e", " ", "#">>
CaseModel ==
    <<"C", "a", "s", "e", " ", "M", "o", "d", "e", "l", " ", "#">>
SerialNo ==
    <<"S", "e", "r", "i", "a", "l", " ", "#">>
EstimatedShipDate ==
    <<"E", "s", "t", "i", "m", "a", "t", "e", "d", " ", "S", "h", "i", "p", " ", "D", "a", "t", "e">>
ArrivedAtWarehouse ==
    <<"A", "r", "r", "i", "v", "e", "d", " ", "@", " ", "W", "a", "r", "e", "h", "o", "u", "s", "e">>
StorageStarts ==
    <<"S", "t", "o", "r", "a", "g", "e", " ", "S", "t", "a", "r", "t", "s">>
StorageEnds ==
    <<"S", "t", "o", "r", "a", "g", "e", " ", "E", "n", "d", "s">>
WarehouseLocation ==
    <<"W", "a", "r", "e", "h", "o", "u", "s", "e", " ", "L", "o", "c", "a", "t", "i", "o", "n">>
TrailerOrWarehouse ==
    <<"T", "r", "a", "i", "l", "e", "r", " ", "o", "r", " ", "W", "a", "r", "e", "h", "o", "u", "s", "e">>
OriginalOrder ==
    <<"O", "r", "i", "g", "i", "n", "a", "l", " ", "o", "r", "d", "e", "r", " ", "#">>
OriginalTrailer ==
    <<"O", "r", "i", "g", "i", "n", "a", "l", " ", "T", "r", "a", "i", "l", "e", "r", " ", "#">>
TouchedNotTouched ==
    <<"T", "o", "u", "c", "h", "e", "d", " ", "/", " ", "n", "o", "t", " ", "T", "o", "u", "c", "h", "e", "d">>
DateStripped ==
    <<"D", "a", "t", "e", " ", "S", "t", "r", "i", "p", "p", "e", "d">>
DamageYN ==
    <<"D", "a", "m", "a", "g", "e", " ", "Y", " ", "/", " ", "N">>
DeliveryOrder ==
    <<"D", "e", "l", "i", "v", "e", "r", "y", " ", "O", "r", "d", "e", "r", " ", "#">>
DeliveryTrailer ==
    <<"D", "e", "l", "i", "v", "e", "r", "y", " ", "T", "r", "a", "i", "l", "e", "r", " ", "#">>
DaysInStorage ==
    <<"#", " ", "D", "a", "y", "s", " ", "I", "n", " ", "S", "t", "o", "r", "a", "g", "e">>
SquareFootageOfCase ==
    <<"S", "q", "u", "a", "r", "e", " ", "F", "o", "o", "t", "a", "g", "e", " ", "o", "f", " ", "C", "a", "s", "e">>
StorageCharge ==
    <<"S", "t", "o", "r", "a", "g", "e", " ", "C", "h", "a", "r", "g", "e">>
ExtendedPrice ==
    <<"E", "x", "t", "e", "n", "d", "e", "d", " ", "P", "r", "i", "c", "e">>
Department ==
    <<"D", "e", "p", "a", "r", "t", "m", "e", "n", "t">>
LHGable ==
    <<"L", "H", " ", "G", "a", "b", "l", "e">>
RHGable ==
    <<"R", "H", " ", "G", "a", "b", "l", "e">>
NoGable ==
    <<"N", "o", " ", "G", "a", "b", "l", "e">>

\* COLUMN_ORDER, lines 28-38
COLUMN_ORDER ==
    <<DestinationStore, Attention, PoFromLoblaw, ShipperOrder,
      LineUp, CaseNo, CaseModel, SerialNo,
      EstimatedShipDate, ArrivedAtWarehouse, StorageStarts, StorageEnds,
      ScheduledDate, ScheduledTime, WarehouseLocation, TrailerOrWarehouse,
      OriginalOrder, OriginalTrailer, TouchedNotTouched, DateStripped,
      DamageYN, DeliveryOrder, DeliveryTrailer, DaysInStorage,
      SquareFootageOfCase, StorageCharge, ExtendedPrice, Department,
      LHGable, RHGable, NoGable>>

\* DATE_COLUMNS, lines 41-44
DATE_COLUMNS ==
    <<EstimatedShipDate, ArrivedAtWarehouse, StorageStarts, StorageEnds,
      ScheduledDate, DateStripped>>

\* standard_date_columns, line 281
StandardDateColumns ==
    <<StorageStarts, StorageEnds, EstimatedShipDate, ArrivedAtWarehouse>>

s_trailer == <<"t","r","a","i","l","e","r">>
s_warehouse == <<"w","a","r","e","h","o","u","s","e">>
s_transferred == <<"t","r","a","n","s","f","e","r","r","e","d">>

\* VALID_LOCATIONS, line 47
VALID_LOCATIONS == {s_trailer, s_warehouse, s_transferred}

\* columns_to_hide, line 538
ColumnsToHide ==
    {EstimatedShipDate, TrailerOrWarehouse, OriginalOrder, OriginalTrailer,
     TouchedNotTouched, DateStripped, DeliveryOrder, Department, LHGable,
     RHGable, NoGable}

s_consolidated == <<"c","o","n","s","o","l","i","d","a","t","e","d">>
s_CostEstimate == <<"C","o","s","t"," ","E","s","t","i","m","a","t","e">>
s_Inventory == <<"I","n","v","e","n","t","o","r","y">>
s_dot_xlsx == <<".","x","l","s","x">>

----------------------------------------------------------------------------
(* Frames: a DataFrame is its column names, in order, and its rows, each a *)
(* sequence of cell values aligned with the names.                         *)

Date(t) == [date |-> t]
IsDate(v) == "date" \in DOMAIN v

\* None: what process_file returns for a file it skips
NoFrame == [none |-> TRUE]

Frame(cols, rows) == [cols |-> cols, rows |-> rows]

ColPositions(f, name) == {k \in 1..Len(f.cols) : f.cols[k] = name}

HasCol(f, name) == ColPositions(f, name) # {}

\* a label that selects more than one column: df[name] is then a DataFrame
Ambiguous(f, name) == Cardinality(ColPositions(f, name)) > 1

ColPos(f, name) == CHOOSE k \in ColPositions(f, name) : \A j \in ColPositions(f, name) : k <= j

\* row[name], for a label present once
Cell(f, row, name) == row[ColPos(f, name)]

\* df[name] = vals (one value per row): the column is replaced, or appended
SetColumn(f, name, vals) ==
    IF HasCol(f, name)
    THEN Frame(f.cols,
               [r \in 1..Len(f.rows) |->
                   [k \in 1..Len(f.cols) |->
                       IF f.cols[k] = name THEN vals[r] ELSE f.rows[r][k]]])
    ELSE Frame(Append(f.cols, name),
               [r \in 1..Len(f.rows) |-> Append(f.rows[r], vals[r])])

\* the members of a set of positions, in increasing order
RECURSIVE Ascending(_)
Ascending(S) ==
    IF S = {} THEN <<>>
    ELSE LET m == CHOOSE k \in S : \A j \in S : k <= j
         IN <<m>> \o Ascending(S \ {m})

\* the frame restricted to the given column positions, in the given order
TakeColumns(f, pos) ==
    Frame([j \in 1..Len(pos) |-> f.cols[pos[j]]],
          [r \in 1..Len(f.rows) |-> [j \in 1..Len(pos) |-> f.rows[r][pos[j]]]])

\* df.rename(columns={old: new}): every column labelled old
RenameColumn(f, old, new) ==
    Frame([k \in 1..Len(f.cols) |-> IF f.cols[k] = old THEN new ELSE f.cols[k]], f.rows)

\* df.empty
IsEmpty(f) == Len(f.rows) = 0 \/ Len(f.cols) = 0

----------------------------------------------------------------------------
(* process_file: GenerateMasterCSV.py 55-359 *)

\* _validate_sheets, lines 105-112
ValidSheets(file) == {s_CostEstimate, s_Inventory} \subseteq file.sheetnames

\* _extract_header_info, line 127
FullStoreName(store_name, city) ==
    IF Truthy(store_name) /\ Truthy(city)
    THEN Str(CellStr(store_name) \o <<" ">> \o CellStr(city))
    ELSE IF Truthy(store_name) THEN store_name ELSE city

\* _extract_header_info, lines 129-133
HeaderInfo(file) ==
    [store |-> FullStoreName(file.I10, file.I12), attention |-> file.C13, po |-> file.I5]

\* _extract_inventory_data, lines 145-149: the rows before the sentinel row
RECURSIVE DataRows(_)
DataRows(rows) ==
    IF rows = <<>> THEN <<>>
    ELSE IF \A k \in 1..(IF Len(Head(rows)) < 5 THEN Len(Head(rows)) ELSE 5) : Head(rows)[k] = Null
    THEN <<>>
    ELSE <<Head(rows)>> \o DataRows(Tail(rows))

TwoDigitsAt(s, k) == k + 1 <= Len(s) /\ IsDigit(s[k]) /\ IsDigit(s[k + 1])

\* (?:\s?[AP]M)?$ from position k
AmPmTail(s, k) ==
    LET rest == SubSeq(s, k, Len(s)) IN
    \/ rest = <<>>
    \/ Len(rest) = 2 /\ rest[1] \in {"A", "P"} /\ rest[2] = "M"
    \/ Len(rest) = 3 /\ IsSpace(rest[1]) /\ rest[2] \in {"A", "P"} /\ rest[3] = "M"

\* time_pattern, lines 213 and 228
MatchesTimePattern(s) ==
    \E h \in {1, 2} :
       /\ Len(s) >= h + 3
       /\ \A j \in 1..h : IsDigit(s[j])
       /\ s[h + 1] = ":"
       /\ TwoDigitsAt(s, h + 2)
       /\ \/ AmPmTail(s, h + 4)
          \/ /\ Len(s) >= h + 6
             /\ s[h + 4] = ":"
             /\ TwoDigitsAt(s, h + 5)
             /\ AmPmTail(s, h + 7)

\* df[col].astype(str).str.match(time_pattern).any(), for a label present once
AnyTimeLike(f, col) ==
    \E r \in 1..Len(f.rows) :
       IsStr(Cell(f, f.rows[r], col)) /\ MatchesTimePattern(Cell(f, f.rows[r], col).str)

\* _fix_time_columns, lines 215-219, over the column labels as they were when
\* the loop began; NoFrame when df[col] raises
RECURSIVE FixTimeLoop(_, _, _)
FixTimeLoop(f, names, k) ==
    IF f = NoFrame \/ k > Len(names) THEN f
    ELSE IF Contains(s_time, Lower(names[k])) /\ names[k] # ScheduledTime
    THEN IF ~HasCol(f, names[k]) \/ Ambiguous(f, names[k]) THEN NoFrame
         ELSE IF AnyTimeLike(f, names[k])
         THEN FixTimeLoop(RenameColumn(f, names[k], ScheduledTime), names, k + 1)
         ELSE FixTimeLoop(f, names, k + 1)
    ELSE FixTimeLoop(f, names, k + 1)

\* _find_adjacent_time_column, lines 226-238
FindAdjacentTimeColumn(f) ==
    LET date_col_idx == ColPos(f, ScheduledDate) IN
    IF date_col_idx + 1 <= Len(f.cols)
    THEN LET next_col == f.cols[date_col_idx + 1] IN
         IF Ambiguous(f, next_col) THEN NoFrame
         ELSE IF AnyTimeLike(f, next_col) THEN RenameColumn(f, next_col, ScheduledTime)
         ELSE f
    ELSE f

\* _fix_time_columns, lines 211-224
FixTimeColumns(f) ==
    LET g == FixTimeLoop(f, f.cols, 1) IN
    IF g = NoFrame THEN NoFrame
    ELSE IF HasCol(g, ScheduledDate) /\ ~HasCol(g, ScheduledTime)
    THEN FindAdjacentTimeColumn(g)
    ELSE g

\* _extract_inventory_data, lines 138-168
ExtractInventoryData(file) ==
    LET data_rows == DataRows(file.rows)
        clean == ProcessHeaders(file.header_row, file.subheader_row)
    IN IF data_rows = <<>> THEN NoFrame
       ELSE IF \E r \in 1..Len(data_rows) : Len(data_rows[r]) # Len(clean) THEN NoFrame
       ELSE FixTimeColumns(Frame(clean, data_rows))

ReadFile_NoPoCheck(file) ==
    IF Contains(s_consolidated, Lower(file.path)) THEN NoFrame
    ELSE IF ~file.loads THEN NoFrame
    ELSE IF ~ValidSheets(file) THEN NoFrame
    ELSE ExtractInventoryData(file)

\* process_file, lines 65-89: the extracted frame, or NoFrame for a skipped file
ReadFile(file) ==
    IF Contains(s_consolidated, Lower(file.path)) THEN NoFrame
    ELSE IF ~file.loads THEN NoFrame
    ELSE IF ~ValidSheets(file) THEN NoFrame
    ELSE IF ~Truthy(file.I5) THEN NoFrame
    ELSE ExtractInventoryData(file)

\* pd.to_datetime(..., errors='coerce') of one cell: a datetime is kept, with
\* its time of day; None and text that is no date become NaT
CoerceDate(v) == IF IsDate(v) THEN v ELSE Null

ConvertDateColumns_Skipped(f) == f

\* _convert_date_columns, lines 275-300; NoFrame when df[col] is a DataFrame
ConvertDateColumns(f) ==
    LET std == {StandardDateColumns[k] : k \in 1..Len(StandardDateColumns)} IN
    IF \E c \in std : Ambiguous(f, c) THEN NoFrame
    ELSE Frame(f.cols,
               [r \in 1..Len(f.rows) |->
                   [k \in 1..Len(f.cols) |->
                       IF f.cols[k] \in std THEN CoerceDate(f.rows[r][k])
                       ELSE f.rows[r][k]]])

ArrivedInRange_LowerInclusive(v, today) ==
    IsDate(v) /\ v.date >= Datetime(2000, 1, 1) /\ v.date < Datetime(today.year, today.month, 1)

\* lines 319-323: the mask of the Arrived @ Warehouse filter
ArrivedInRange(v, today) ==
    LET lower_cutoff == Datetime(2000, 1, 1)
        upper_cutoff == Datetime(today.year, today.month, 1)
    IN IsDate(v) /\ v.date > lower_cutoff /\ v.date < upper_cutoff

\* _apply_date_filters, lines 318-327
FilterArrived(f, today) ==
    IF HasCol(f, ArrivedAtWarehouse)
    THEN Frame(f.cols,
               SelectSeq(f.rows,
                         LAMBDA row : ArrivedInRange(Cell(f, row, ArrivedAtWarehouse), today)))
    ELSE f

StorageEndsKept_StrictSentinel(v, today) ==
    \/ ~IsDate(v)
    \/ v.date < Datetime(2000, 1, 31)
    \/ v.date >= (IF today.month > 1 THEN Datetime(today.year, today.month - 1, 1)
                  ELSE Datetime(today.year - 1, 12, 1))

\* lines 331-341: the mask of the Storage Ends filter
StorageEndsKept(v, today) ==
    LET first_of_prev_month ==
            IF today.month > 1 THEN Datetime(today.year, today.month - 1, 1)
            ELSE Datetime(today.year - 1, 12, 1)
        early_cutoff == Datetime(2000, 1, 31)
    IN \/ ~IsDate(v)
       \/ v.date <= early_cutoff
       \/ v.date >= first_of_prev_month

\* _apply_date_filters, lines 330-344
FilterStorageEnds(f, today) ==
    IF HasCol(f, StorageEnds)
    THEN Frame(f.cols,
               SelectSeq(f.rows,
                         LAMBDA row : StorageEndsKept(Cell(f, row, StorageEnds), today)))
    ELSE f

\* line 354: the mask of the location filter
ValidLocation(v) == IsStr(v) /\ Lower(v.str) \in VALID_LOCATIONS

\* _apply_location_filters, lines 348-359
ApplyLocationFilters(f) ==
    IF ~HasCol(f, TrailerOrWarehouse) THEN f
    ELSE IF Ambiguous(f, TrailerOrWarehouse) THEN NoFrame
    ELSE Frame(f.cols,
               SelectSeq(f.rows,
                         LAMBDA row : ValidLocation(Cell(f, row, TrailerOrWarehouse))))

\* lines 252-255 and 506-509: the previous calendar month of the wall clock
ReferenceWindow(today) ==
    LET first_day_this_month == Datetime(today.year, today.month, 1)
        last_day_prev_month == MinusDays(first_day_this_month, 1)
        ym == YearMonthOf(last_day_prev_month, today.year)
    IN [first |-> Datetime(ym[1], ym[2], 1), last |-> last_day_prev_month]

\* lines 259-261 and 517: Storage Starts of one row
ResolveStarts(arrived, w) ==
    IF IsDate(arrived) /\ w.first <= arrived.date /\ arrived.date <= w.last
    THEN arrived ELSE Date(w.first)

ResolveEnds_FirstDay(scheduled, w) ==
    IF IsDate(scheduled) /\ w.first <= scheduled.date /\ scheduled.date <= w.last
    THEN scheduled ELSE Date(w.first)

\* lines 268-270 and 522: Storage Ends of one row
ResolveEnds(scheduled, w) ==
    IF IsDate(scheduled) /\ w.first <= scheduled.date /\ scheduled.date <= w.last
    THEN scheduled ELSE Date(w.last)

\* a value the comparison of line 260 or 269 raises TypeError on
NotComparable(v) == v # Null /\ ~IsDate(v)

\* _transform_data, lines 257-263
ClampStarts(f, w) ==
    IF HasCol(f, ArrivedAtWarehouse) /\ HasCol(f, StorageStarts) /\ Len(f.rows) > 0
    THEN IF Ambiguous(f, ArrivedAtWarehouse) THEN NoFrame
         ELSE SetColumn(f, StorageStarts,
                        [r \in 1..Len(f.rows) |->
                            ResolveStarts(Cell(f, f.rows[r], ArrivedAtWarehouse), w)])
    ELSE f

\* _transform_data, lines 266-272
ClampEnds(f, w) ==
    IF HasCol(f, ScheduledDate) /\ HasCol(f, StorageEnds) /\ Len(f.rows) > 0
    THEN IF Ambiguous(f, ScheduledDate) THEN NoFrame
         ELSE IF \E r \in 1..Len(f.rows) : NotComparable(Cell(f, f.rows[r], ScheduledDate))
         THEN NoFrame
         ELSE SetColumn(f, StorageEnds,
                        [r \in 1..Len(f.rows) |->
                            ResolveEnds(Cell(f, f.rows[r], ScheduledDate), w)])
    ELSE f

\* _transform_data, lines 251-273: the StoragePeriodResolver on one file
ClampFile(f, today) ==
    LET g == ClampStarts(f, ReferenceWindow(today)) IN
    IF g = NoFrame THEN NoFrame ELSE ClampEnds(g, ReferenceWindow(today))

\* process_file, lines 95-96
AddHeaderInfo(f, info) ==
    LET all(v) == [r \in 1..Len(f.rows) |-> v] IN
    SetColumn(SetColumn(SetColumn(f, DestinationStore, all(info.store)),
                        Attention, all(info.attention)),
              PoFromLoblaw, all(info.po))

----------------------------------------------------------------------------
(* _consolidate_dataframes: GenerateMasterCSV.py 420-451 *)

\* an exception that leaves process_folders or save_consolidated_report
Raise == [raise |-> TRUE]

HasDuplicates(cols) == \E p, q \in 1..Len(cols) : p # q /\ cols[p] = cols[q]

DropEmptyColumns_KeepAll(f) == f

\* lines 430-434: the columns added at line 432 are all missing, so that
\* dropna leaves the file's columns that hold at least one value
DropEmptyColumns(f) ==
    TakeColumns(f, Ascending({k \in 1..Len(f.cols) :
                                 \E r \in 1..Len(f.rows) : f.rows[r][k] # Null}))

\* the labels of cols followed by those of more that cols lacks
RECURSIVE AppendNew(_, _)
AppendNew(cols, more) ==
    IF more = <<>> THEN cols
    ELSE IF \E k \in 1..Len(cols) : cols[k] = Head(more) THEN AppendNew(cols, Tail(more))
    ELSE AppendNew(Append(cols, Head(more)), Tail(more))

\* the union of the frames' labels in order of first appearance
RECURSIVE UnionColumns(_)
UnionColumns(frames) ==
    IF frames = <<>> THEN <<>>
    ELSE AppendNew(UnionColumns(SubSeq(frames, 1, Len(frames) - 1)),
                   frames[Len(frames)].cols)

\* the rows of f laid out under the labels cols, missing where f has no such label
Realign(f, cols) ==
    [r \in 1..Len(f.rows) |->
        [k \in 1..Len(cols) |->
            IF HasCol(f, cols[k]) THEN Cell(f, f.rows[r], cols[k]) ELSE Null]]

RECURSIVE StackRows(_, _)
StackRows(frames, cols) ==
    IF frames = <<>> THEN <<>>
    ELSE Realign(Head(frames), cols) \o StackRows(Tail(frames), cols)

RECURSIVE StackRowsAsIs(_)
StackRowsAsIs(frames) ==
    IF frames = <<>> THEN <<>> ELSE Head(frames).rows \o StackRowsAsIs(Tail(frames))

\* pd.concat(dfs, ignore_index=True), line 438: frames with one and the same
\* column index are stacked as they are; otherwise the indexes are united,
\* which raises when one of them holds a label twice
ConcatFrames(frames) ==
    IF \A i, j \in 1..Len(frames) : frames[i].cols = frames[j].cols
    THEN Frame(frames[1].cols, StackRowsAsIs(frames))
    ELSE IF \E i \in 1..Len(frames) : HasDuplicates(frames[i].cols) THEN Raise
    ELSE Frame(UnionColumns(frames), StackRows(frames, UnionColumns(frames)))

\* col.split('_')[0] if '_' in col else col, line 441
CollapseName(col) ==
    IF \E k \in 1..Len(col) : col[k] = "_"
    THEN SubSeq(col, 1, (CHOOSE k \in 1..Len(col) :
                            col[k] = "_" /\ \A j \in 1..(k - 1) : col[j] # "_") - 1)
    ELSE col

UpperChar(c) ==
    IF \E k \in 1..Len(LowerAlphabet) : LowerAlphabet[k] = c
    THEN UpperAlphabet[CHOOSE k \in 1..Len(LowerAlphabet) : LowerAlphabet[k] = c]
    ELSE c

\* str.replace(r'\.\d+$', '', regex=True), line 373
RECURSIVE DropTrailingDigits(_)
DropTrailingDigits(s) ==
    IF Len(s) > 0 /\ IsDigit(s[Len(s)]) THEN DropTrailingDigits(SubSeq(s, 1, Len(s) - 1))
    ELSE s

DropFraction(s) ==
    LET d == DropTrailingDigits(s) IN
    IF Len(d) < Len(s) /\ Len(d) > 0 /\ d[Len(d)] = "." THEN SubSeq(d, 1, Len(d) - 1)
    ELSE s

\* lines 371-379 on the text of one cell
FormatTimeText(s) ==
    LET a == DropFraction(s)
        b == IF Len(a) >= 8 /\ Cardinality({k \in 1..Len(a) : a[k] = ":"}) >= 2
             THEN Prefix(a, 5) ELSE a
    IN SelectSeq([k \in 1..Len(b) |-> UpperChar(b[k])], LAMBDA c : c # " ")

\* astype(str) of a Scheduled Time cell: text, or the text of the missing marker
TimeCellText(v) == IF IsStr(v) THEN v.str ELSE IF IsInt(v) THEN IntToStr(v.int) ELSE <<"N", "o", "n", "e">>

\* lines 366-367 on one cell: coerced, then cut to its date
DateCellOnly(v) == IF IsDate(v) THEN Date(DateOnly(v.date)) ELSE Null

\* format_date_columns, lines 361-381; Raise when df[col] is a DataFrame
FormatDateColumns(f) ==
    LET dates == {c \in {DATE_COLUMNS[k] : k \in 1..Len(DATE_COLUMNS)} : HasCol(f, c)} IN
    IF (\E c \in dates : Ambiguous(f, c)) \/ Ambiguous(f, ScheduledTime) THEN Raise
    ELSE Frame(f.cols,
               [r \in 1..Len(f.rows) |->
                   [k \in 1..Len(f.cols) |->
                       IF f.cols[k] \in dates THEN DateCellOnly(f.rows[r][k])
                       ELSE IF f.cols[k] = ScheduledTime
                       THEN Str(FormatTimeText(TimeCellText(f.rows[r][k])))
                       ELSE f.rows[r][k]]])

\* lines 448-449: the columns named in COLUMN_ORDER, in that order
RECURSIVE OrderedPositions(_, _)
OrderedPositions(f, k) ==
    IF k > Len(COLUMN_ORDER) THEN <<>>
    ELSE Ascending(ColPositions(f, COLUMN_ORDER[k])) \o OrderedPositions(f, k + 1)

ReorderColumns(f) == TakeColumns(f, OrderedPositions(f, 1))

\* lines 441-442
CollapseColumns(f) == Frame([k \in 1..Len(f.cols) |-> CollapseName(f.cols[k])], f.rows)

\* _consolidate_dataframes, lines 420-451: the Consolidated Table, or Raise
ConsolidateDataframes(frames) ==
    LET stacked == ConcatFrames([i \in 1..Len(frames) |-> DropEmptyColumns(frames[i])]) IN
    IF stacked = Raise THEN Raise
    ELSE LET formatted == FormatDateColumns(CollapseColumns(stacked)) IN
         IF formatted = Raise THEN Raise ELSE ReorderColumns(formatted)

----------------------------------------------------------------------------
(* save_consolidated_report: GenerateMasterCSV.py 504-568 *)

\* lines 512-523: the StoragePeriodResolver on the Consolidated Table, or Raise
\* (KeyError for an absent label, ValueError for a label held twice)
ClampConsolidated(f, today) ==
    IF ~HasCol(f, ArrivedAtWarehouse) \/ ~HasCol(f, ScheduledDate) THEN Raise
    ELSE IF Ambiguous(f, ArrivedAtWarehouse) \/ Ambiguous(f, ScheduledDate) THEN Raise
    ELSE LET w == ReferenceWindow(today)
             n == Len(f.rows)
             a == SetColumn(f, ArrivedAtWarehouse,
                            [r \in 1..n |-> CoerceDate(Cell(f, f.rows[r], ArrivedAtWarehouse))])
             b == SetColumn(a, ScheduledDate,
                            [r \in 1..n |-> CoerceDate(Cell(a, a.rows[r], ScheduledDate))])
             c == SetColumn(b, StorageStarts,
                            [r \in 1..n |-> ResolveStarts(Cell(b, b.rows[r], ArrivedAtWarehouse), w)])
         IN SetColumn(c, StorageEnds,
                      [r \in 1..n |-> ResolveEnds(Cell(c, c.rows[r], ScheduledDate), w)])

\* lines 538-539
DropHiddenColumns(f) ==
    TakeColumns(f, Ascending({k \in 1..Len(f.cols) : f.cols[k] \notin ColumnsToHide}))

\* the labels the formula loop of lines 554-563 looks up in col_indices
FormulaColumns ==
    {StorageStarts, StorageEnds, DaysInStorage, StorageCharge, SquareFootageOfCase,
     ExtendedPrice}

\* col_indices[name], line 552: the last column with the label
LastColPos(f, name) == CHOOSE k \in ColPositions(f, name) : \A j \in ColPositions(f, name) : j <= k

\* lines 554-563: the two formulas of sheet row r + 1, written over the cells
\* of data row r; a formula is the cells it reads, as <<column, sheet row>>
InjectFormulas(f) ==
    LET col(name) == LastColPos(f, name) IN
    Frame(f.cols,
          [r \in 1..Len(f.rows) |->
              [k \in 1..Len(f.cols) |->
                  IF k = col(ExtendedPrice)
                  THEN [price |-> <<<<col(StorageCharge), r + 1>>,
                                    <<col(SquareFootageOfCase), r + 1>>,
                                    <<col(DaysInStorage), r + 1>>>>]
                  ELSE IF k = col(DaysInStorage)
                  THEN [days |-> <<<<col(StorageEnds), r + 1>>, <<col(StorageStarts), r + 1>>>>]
                  ELSE f.rows[r][k]]])

----------------------------------------------------------------------------
(* FormatCSV.py: the formatting of the report and its per-store sheets.   *)
(* A sheet is the sequence of its rows, row r of the sheet at index r,    *)
(* every row as wide as the sheet.                                        *)

s_Store == <<"S","t","o","r","e">>
s_PM == <<"P","M">>
s_PO == <<"P","O">>
s_DamageYN == <<"D","a","m","a","g","e"," ","Y","-","N">>
s_DeliveryTrailer == <<"D","e","l","i","v","e","r","y"," ","T","r","a","i","l","e","r">>
s_SquareFootage == <<"S","q","u","a","r","e"," ","F","o","o","t","a","g","e">>
s_Inventory_ == <<"I","n","v","e","n","t","o","r","y"," ">>
s_SAP == <<"S","A","P"," ","4","0","2","1","4","4","5">>
s_nan == <<"n","a","n">>
s_none == <<"n","o","n","e">>
s_Shelbyville == <<"S","h","e","l","b","y","v","i","l","l","e">>
MonthNames ==
    <<<<"J","a","n","u","a","r","y">>,
      <<"F","e","b","r","u","a","r","y">>,
      <<"M","a","r","c","h">>,
      <<"A","p","r","i","l">>,
      <<"M","a","y">>,
      <<"J","u","n","e">>,
      <<"J","u","l","y">>,
      <<"A","u","g","u","s","t">>,
      <<"S","e","p","t","e","m","b","e","r">>,
      <<"O","c","t","o","b","e","r">>,
      <<"N","o","v","e","m","b","e","r">>,
      <<"D","e","c","e","m","b","e","r">>>>

\* header_row, line 79
HeaderRowNo == 6

\* headers, lines 80-84
FormatHeaders ==
    <<s_Store, s_PM, s_PO, ShipperOrder, LineUp, CaseNo, CaseModel, SerialNo,
      ArrivedAtWarehouse, StorageStarts, StorageEnds, ScheduledDate, ScheduledTime,
      WarehouseLocation, s_DamageYN, s_DeliveryTrailer, DaysInStorage, s_SquareFootage,
      StorageCharge, ExtendedPrice>>

\* currency_columns, line 119, and columns_to_clear, line 128
CurrencyColumns == {StorageCharge, ExtendedPrice}

ColumnsToClear == {ScheduledTime}

Pad(row, width) == [k \in 1..width |-> IF k <= Len(row) THEN row[k] ELSE Null]

PadAll(rows, width) == [r \in 1..Len(rows) |-> Pad(rows[r], width)]

\* the sheet that to_excel and the formula loop of save_consolidated_report
\* leave on disk: the column names in row 1, the records from row 2 on
WrittenSheet(f) == <<[k \in 1..Len(f.cols) |-> Str(f.cols[k])]>> \o f.rows

\* lines 61-66 and 70: the text of cell E2
BannerText(today) ==
    LET last_day_prev_month == MinusDays(Datetime(today.year, today.month, 1), 1)
        ym == YearMonthOf(last_day_prev_month, today.year)
    IN s_Inventory_ \o MonthNames[ym[2]] \o <<" ">>
       \o IntToStr(DaysInMonth(ym[1], ym[2])) \o <<" ">> \o IntToStr(today.year)

\* rows 1 to 5 of a formatted sheet, the five rows of insert_rows(1, amount=5)
\* on the Master sheet (line 51): E2 and E3 are set (lines 68-76, 174-182)
BannerBlock(banner) ==
    <<<<>>, <<Null, Null, Null, Null, Str(banner)>>, <<Null, Null, Null, Null, Str(s_SAP)>>,
      <<>>, <<>>>>

\* lines 86-89: the first 20 cells of the header row are overwritten
WriteHeaders(old) ==
    [k \in 1..(IF Len(old) > Len(FormatHeaders) THEN Len(old) ELSE Len(FormatHeaders)) |->
        IF k <= Len(FormatHeaders) THEN Str(FormatHeaders[k]) ELSE old[k]]

\* str(cell.value).strip().lower() in ['nan', 'none'], lines 136 and 216
IsNanText(c) == IsStr(c) /\ Lower(Strip(c.str)) \in {s_nan, s_none}

\* headers.index(col_name), lines 114, 123, 134
HeadersIndex(name) == CHOOSE k \in 1..Len(FormatHeaders) : FormatHeaders[k] = name

\* the cells of a data row under the named headers lose a 'nan' or 'None' text
ClearNanCells(row, names) ==
    [k \in 1..Len(row) |->
        IF (\E n \in names : HeadersIndex(n) = k) /\ IsNanText(row[k]) THEN Null
        ELSE row[k]]

\* col_indices[name], lines 140-141 and 220-221: the last cell of the header
\* row holding the name
HeaderColumn(header, name) ==
    CHOOSE k \in 1..Len(header) :
       header[k] = Str(name) /\ \A j \in (k + 1)..Len(header) : header[j] # Str(name)

\* lines 145-152 and 225-232 for one sheet row: the two formulas, each the
\* cells it reads as <<column, sheet row>>
WithFormulas(cells, header, row) ==
    LET col(name) == HeaderColumn(header, name) IN
    [k \in 1..Len(cells) |->
        IF k = col(ExtendedPrice)
        THEN [price |-> <<<<col(StorageCharge), row>>, <<col(s_SquareFootage), row>>,
                          <<col(DaysInStorage), row>>>>]
        ELSE IF k = col(DaysInStorage)
        THEN [days |-> <<<<col(StorageEnds), row>>, <<col(StorageStarts), row>>>>]
        ELSE cells[k]]

\* lines 139-154 and 219-234: the formulas of every row below the header row
RewriteFormulas(sheet) ==
    [r \in 1..Len(sheet) |->
        IF r > HeaderRowNo THEN WithFormulas(sheet[r], sheet[HeaderRowNo], r) ELSE sheet[r]]

SheetWidth(rows) ==
    IF rows = <<>> THEN 0
    ELSE LET lens == {Len(rows[r]) : r \in 1..Len(rows)}
         IN CHOOSE w \in lens : \A v \in lens : v <= w

\* lines 47-154 on the Master sheet: five rows inserted above (the formulas
\* moved down keep their text), the headers overwritten, the Scheduled Time
\* cells cleared, the formulas rewritten
FormatMasterSheet(written, banner) ==
    LET header == WriteHeaders(written[1])
        data == [r \in 1..(Len(written) - 1) |->
                    ClearNanCells(Pad(written[r + 1], Len(header)), ColumnsToClear)]
    IN RewriteFormulas(PadAll(BannerBlock(banner), Len(header)) \o <<header>> \o data)

\* lines 157-162: the truthy values of the first column below the header row
StoreValues(master) ==
    {master[r][1] : r \in (HeaderRowNo + 1)..Len(master)} \ {Null, Str(<<>>), Num(0)}

\* lines 166-234: the sheet of one store
StoreSheet(master, store, banner) ==
    LET header == [k \in 1..Len(FormatHeaders) |-> Str(FormatHeaders[k])]
        copied == SelectSeq(SubSeq(master, HeaderRowNo + 1, Len(master)),
                            LAMBDA row : row[1] = store)
        width == IF copied = <<>> THEN Len(header) ELSE SheetWidth(<<header>> \o copied)
        data == [r \in 1..Len(copied) |-> ClearNanCells(copied[r], CurrencyColumns)]
    IN RewriteFormulas(PadAll(BannerBlock(banner) \o <<header>> \o data, width))

\* set(wb.sheetnames), line 163, with the sheets created so far
SheetNames(sheets) == {s_Master} \cup {sheets[i].title : i \in 1..Len(sheets)}

\* no workbook is open
NoWorkbook == [closed |-> TRUE]

\* str(name), line 35
StoreText(store) == IF IsStr(store) THEN store.str ELSE IntToStr(store.int)

----------------------------------------------------------------------------
(* SpecHeaders: the scan of one header grid, one position per step *)

MaxHeaderCols == 3

s_Foo == <<"F","o","o">>
s_Foo1 == <<"F","o","o","_","1">>
s_Date == <<"D","a","t","e">>
s_Tme == <<"T","m","e">>
s_TimeSp == <<"T","I","M","E"," ">>
s_DateTime == <<"D","a","t","e","/","T","i","m","e">>
s_SpAPPT == <<" ","S","c","h","e","d","u","l","e","d"," ","A","P","P","T">>

\* row 7 of the Inventory sheet: merged cells read as None
PrimaryCells ==
    {Null, Str(ScheduledAPPT), Str(s_SpAPPT), Str(s_Foo), Str(s_Foo1), Num(7)}

\* row 8 of the Inventory sheet
SubCells == {Null, Str(s_Date), Str(s_Tme), Str(s_TimeSp), Str(s_DateTime)}

InitHeaders ==
    /\ header_row \in UNION {[1..n -> PrimaryCells] : n \in 1..MaxHeaderCols}
    /\ subheader_row \in [1..Len(header_row) -> SubCells]
    /\ clean_headers = <<>>
    /\ seen_headers = <<>>
    /\ prev_main_header = Null
    /\ candidates = <<>>
    /\ hpc = "scan"
    /\ TitlesIdle
    /\ PipelineIdle

\* the body of the for loop of line 180
ScanPosition ==
    /\ hpc = "scan"
    /\ Len(clean_headers) < Len(header_row)
    /\ LET i == Len(clean_headers)
           st == HeaderStep([clean |-> clean_headers, seen |-> seen_headers,
                             prev |-> prev_main_header, cand |-> candidates],
                            i, header_row[i + 1], subheader_row[i + 1])
       IN /\ clean_headers' = st.clean
          /\ seen_headers' = st.seen
          /\ prev_main_header' = st.prev
          /\ candidates' = st.cand
    /\ UNCHANGED <<header_row, subheader_row, hpc, tvars, pvars>>

\* line 209
ReturnHeaders ==
    /\ hpc = "scan"
    /\ Len(clean_headers) = Len(header_row)
    /\ hpc' = "done"
    /\ UNCHANGED <<header_row, subheader_row, clean_headers, seen_headers,
                   prev_main_header, candidates, tvars, pvars>>

NextHeaders == ScanPosition \/ ReturnHeaders

SpecHeaders == InitHeaders /\ [][NextHeaders]_vars

----------------------------------------------------------------------------
(* Claims on SpecHeaders *)

\* the number of positions before p whose candidate name equals that of p
EarlierSame(p) == Cardinality({q \in 1..(p - 1) : candidates[q] = candidates[p]})

\* the stripped text of the last non-null primary header before position p
RECURSIVE LastPrimary(_)
LastPrimary(p) ==
    IF p <= 1 THEN Null
    ELSE IF header_row[p - 1] # Null THEN Str(Strip(CellStr(header_row[p - 1])))
    ELSE LastPrimary(p - 1)

\* C6: scanning left to right, the first occurrence of a candidate name is
\* emitted unsuffixed and its k-th later occurrence is emitted as <name>_<k>;
\* primary headers [Foo, Foo, Foo] normalize to [Foo, Foo_1, Foo_2].
C6_HeaderDedup ==
    /\ \A p \in 1..Len(clean_headers) :
          clean_headers[p] =
             IF EarlierSame(p) = 0 THEN candidates[p]
             ELSE candidates[p] \o <<"_">> \o IntToStr(EarlierSame(p))
    /\ (hpc = "done" /\ header_row = <<Str(s_Foo), Str(s_Foo), Str(s_Foo)>>)
          => clean_headers = <<s_Foo, s_Foo \o <<"_", "1">>, s_Foo \o <<"_", "2">>>>

C6_Witness ==
    /\ hpc = "done"
    /\ header_row = <<Str(s_Foo), Str(s_Foo), Str(s_Foo)>>
    /\ clean_headers = <<s_Foo, s_Foo1, s_Foo \o <<"_", "2">>>>

\* C7: a position whose primary header is the literal Scheduled APPT is named
\* Scheduled Date when its subheader contains "date" and Scheduled Time when
\* it contains "time", "tme" or "tim", never the literal label; a null primary
\* following Scheduled APPT whose subheader contains a time token is named
\* Scheduled Time; [Scheduled APPT, null] over [Date, Tme] yields
\* [Scheduled Date, Scheduled Time].
C7_MergedHeaderSplit ==
    /\ \A p \in 1..Len(candidates) :
          LET h == header_row[p]
              s == SubheaderStr(subheader_row[p])
          IN /\ (h # Null /\ Strip(CellStr(h)) = ScheduledAPPT) =>
                   /\ Contains(s_date, s) => candidates[p] = ScheduledDate
                   /\ (~Contains(s_date, s) /\ HasTimeToken(s))
                         => candidates[p] = ScheduledTime
                   /\ candidates[p] # ScheduledAPPT
             /\ (h = Null /\ LastPrimary(p) = Str(ScheduledAPPT) /\ HasTimeToken(s))
                   => candidates[p] = ScheduledTime
    /\ (hpc = "done" /\ header_row = <<Str(ScheduledAPPT), Null>>
           /\ subheader_row = <<Str(s_Date), Str(s_Tme)>>)
          => clean_headers = <<ScheduledDate, ScheduledTime>>

\* C8: for a null primary at index i whose last non-null primary is
\* Scheduled APPT the candidate is Scheduled Date if the subheader contains
\* "date", else Scheduled Time if it contains a time token, else Unnamed_<i>;
\* for a null primary after anything else the candidate is Unnamed_<i>.
C8_MergedCellContinuation ==
    \A p \in 1..Len(candidates) :
       LET s == SubheaderStr(subheader_row[p]) IN
       header_row[p] = Null =>
          candidates[p] =
             IF LastPrimary(p) = Str(ScheduledAPPT)
             THEN IF Contains(s_date, s) THEN ScheduledDate
                  ELSE IF HasTimeToken(s) THEN ScheduledTime
                  ELSE UnnamedPrefix \o IntToStr(p - 1)
             ELSE UnnamedPrefix \o IntToStr(p - 1)

\* C19: the sequence returned by header normalization holds no name twice,
\* also when a raw header equals a name the dedup step generates (primary
\* [Foo, Foo, Foo_1]) or a synthetic Unnamed_<i> placeholder.
C19_UniqueColumnNames ==
    hpc = "done" =>
        \A p, q \in 1..Len(clean_headers) : p # q => clean_headers[p] # clean_headers[q]

----------------------------------------------------------------------------
(* SpecTitles: the per-store title assignments of one workbook, by the     *)
(* store loop of FormatCSV.py (163-166) or by the store loop of            *)
(* create_individual_store_sheets (465-474).                               *)

MaxStores == 3

s_Store45Springfield == <<"S","t","o","r","e"," ","#","4","5"," ","S","p","r","i","n","g","f","i","e","l","d">>
s_Store45Shelbyville == <<"S","t","o","r","e"," ","#","4","5"," ","S","h","e","l","b","y","v","i","l","l","e">>
s_SuperstoreCalgary == <<"R","e","a","l"," ","C","a","n","a","d","i","a","n"," ","S","u","p","e","r","s","t","o","r","e"," ","W","e","s","t","s","i","d","e"," ","C","a","l","g","a","r","y">>
s_SuperstoreEdmonton == <<"R","e","a","l"," ","C","a","n","a","d","i","a","n"," ","S","u","p","e","r","s","t","o","r","e"," ","W","e","s","t","s","i","d","e"," ","E","d","m","o","n","t","o","n">>
s_LoblawsColon == <<"L","o","b","l","a","w","s",":"," ","M","a","i","n">>
s_LoblawsSlash == <<"L","o","b","l","a","w","s","/"," ","M","a","i","n">>
s_SuperstoreTwo == <<"R","e","a","l"," ","C","a","n","a","d","i","a","n"," ","S","u","p","e","r","s","t","o","r","e"," ","W","e"," ","(","2",")">>

StoreNames ==
    {s_Store45Springfield, s_Store45Shelbyville, s_SuperstoreCalgary,
     s_SuperstoreEdmonton, s_LoblawsColon, s_LoblawsSlash, s_SuperstoreTwo,
     s_Master}

\* the wall clock months a run is started in
ClockMonths ==
    {[year |-> 2026, month |-> 1], [year |-> 2026, month |-> 3],
     [year |-> 2026, month |-> 11]}

DistinctSeqs(S, n) ==
    {f \in UNION {[1..k -> S] : k \in 0..n} :
        \A p, q \in DOMAIN f : p # q => f[p] # f[q]}

InitTitles ==
    /\ tpc \in {"format", "generate"}
    /\ stores \in DistinctSeqs(StoreNames, MaxStores)
    /\ titles = <<>>
    \* FormatCSV.py line 163: the workbook holds the Master sheet
    /\ existing_titles = IF tpc = "format" THEN {s_Master} ELSE {}
    /\ t_today \in IF tpc = "generate" THEN ClockMonths ELSE {[year |-> 2026, month |-> 11]}
    /\ HeadersIdle
    /\ PipelineIdle

\* FormatCSV.py lines 164-166, one store
FormatAssignTitle ==
    /\ tpc = "format"
    /\ Len(titles) < Len(stores)
    /\ LET safe_title == SanitizeSheetTitle(stores[Len(titles) + 1], existing_titles)
       IN /\ titles' = Append(titles, safe_title)
          /\ existing_titles' = existing_titles \cup {safe_title}
    /\ UNCHANGED <<stores, t_today, tpc, hvars, pvars>>

\* GenerateMasterCSV.py lines 465-474, one store
GenerateAssignTitle ==
    /\ tpc = "generate"
    /\ Len(titles) < Len(stores)
    /\ titles' = Append(titles, StoreSheetName(stores[Len(titles) + 1], t_today))
    /\ UNCHANGED <<stores, existing_titles, t_today, tpc, hvars, pvars>>

TitlesDone ==
    /\ tpc \in {"format", "generate"}
    /\ Len(titles) = Len(stores)
    /\ tpc' = "done"
    /\ UNCHANGED <<stores, titles, existing_titles, t_today, hvars, pvars>>

NextTitles == FormatAssignTitle \/ GenerateAssignTitle \/ TitlesDone

SpecTitles == InitTitles /\ [][NextTitles]_vars

----------------------------------------------------------------------------
(* Claims on SpecTitles *)

\* the label a store reduces to before disambiguation
ReducedLabel(store) ==
    IF existing_titles = {} THEN StoreSheetName(store, t_today) ELSE SanitizeBase(store)

\* C10: after any sequence of per-store title assignments the assigned
\* identifiers are pairwise distinct and at most 31 characters long; when two
\* stores reduce to the same label of 31 or more characters the second one
\* receives the suffix " (2)" on a base truncated to fit 31 characters.
C10_SheetIdentifiers ==
    /\ \A p, q \in 1..Len(titles) : p # q => titles[p] # titles[q]
    /\ \A p \in 1..Len(titles) : Len(titles[p]) <= MaxTitleLen
    /\ (/\ Len(stores) = 2
        /\ Len(titles) = 2
        /\ ReducedLabel(stores[1]) = ReducedLabel(stores[2])
        /\ Len(ReducedLabel(stores[1])) >= MaxTitleLen)
          => titles[2] = Prefix(ReducedLabel(stores[1]), MaxTitleLen - 4) \o <<" ", "(", "2", ")">>

----------------------------------------------------------------------------
(* Spec: the folders and workbooks a run of main() finds *)

MaxFiles == 2
MaxClockSteps == 1

s_C1 == <<"C","1">>
s_1430 == <<"1","4",":","3","0">>
s_Trailer == <<"T","r","a","i","l","e","r">>
s_Yard == <<"Y","a","r","d">>
s_PO123 == <<"P","O","1","2","3">>
s_A1 == <<"A","1">>
s_na == <<"n","/","a">>
s_store_xlsx == <<"s","t","o","r","e",".","x","l","s","x">>
s_notes_txt == <<"n","o","t","e","s",".","t","x","t">>
s_ConsolidatedXlsx == <<"L","o","b","l","a","w","s","C","o","n","s","o","l","i","d","a","t","e","d","I","n","v","e","n","t","o","r","y",".","x","l","s","x">>
s_Alberta == <<"A","l","b","e","r","t","a">>
s_Quebec == <<"Q","u","e","b","e","c">>
s_Jo == <<"J","o">>
s_Summary == <<"S","u","m","m","a","r","y">>
s_Springfield == <<"S","p","r","i","n","g","f","i","e","l","d">>
s_Store45 == <<"S","t","o","r","e"," ","#","4","5">>

\* rows 7 and 8 of an Inventory sheet with every column the report uses
FullHeaderRow ==
    <<Str(CaseNo), Str(ArrivedAtWarehouse), Str(StorageStarts), Str(StorageEnds),
      Str(ScheduledAPPT), Null, Str(TrailerOrWarehouse), Str(DaysInStorage),
      Str(SquareFootageOfCase), Str(StorageCharge), Str(ExtendedPrice)>>

FullSubheaderRow ==
    <<Null, Null, Null, Null, Str(s_Date), Str(s_Tme), Null, Null, Null, Null, Null>>

\* one data row under FullHeaderRow
FullRow(arrived, ends, scheduled, location) ==
    <<Str(s_C1), arrived, Null, ends, scheduled, Str(s_1430), location, Num(31),
      Num(100), Num(2), Num(266)>>

\* the row of None cells that ends the data of a sheet
BlankRow(n) == [k \in 1..n |-> Null]

\* a workbook as load_workbook(read_only=True, data_only=True) presents it:
\* the cells of 'Cost Estimate' and rows 7, 8 and 9.. of 'Inventory'
Workbook(name, header, subheader, data) ==
    [path |-> name, loads |-> TRUE, sheetnames |-> {s_CostEstimate, s_Inventory},
     I5 |-> Str(s_PO123), I10 |-> Str(s_Store45), I12 |-> Str(s_Springfield),
     C13 |-> Str(s_Jo), header_row |-> header, subheader_row |-> subheader,
     rows |-> data]

Folder(name, entries) == [path |-> name, exists |-> TRUE, listing |-> entries]

MissingFolder(name) == [path |-> name, exists |-> FALSE, listing |-> <<>>]

\* the values an 'Arrived @ Warehouse' cell takes, around the bounds the code
\* compares it with; an instant between two midnights has a time of day
ArrivedCells(today) ==
    LET w == ReferenceWindow(today) IN
    {Null, Str(s_na), Date(Datetime(2000, 1, 1)), Date(Datetime(2000, 1, 1) + 1),
     Date(w.first - 1), Date(w.first), Date(w.last), Date(w.last + 1),
     Date(w.last + TicksPerDay)}

StorageEndsCells(today) ==
    LET w == ReferenceWindow(today) IN
    {Null, Date(Datetime(2000, 1, 31)), Date(Datetime(2000, 1, 31) + 1),
     Date(w.first - 1), Date(w.first), Date(w.last + TicksPerDay)}

ScheduledCells(today) ==
    LET w == ReferenceWindow(today) IN
    {Null, Str(s_na), Date(w.first - 1), Date(w.first), Date(w.last),
     Date(w.last + 1), Date(w.last + TicksPerDay)}

\* one folder holding one workbook with one data row
DateScenarios(today) ==
    {<<Folder(s_Alberta,
              <<Workbook(s_store_xlsx, FullHeaderRow, FullSubheaderRow,
                         <<FullRow(a, e, s, Str(s_Trailer))>>)>>)>> :
        a \in ArrivedCells(today), e \in StorageEndsCells(today),
        s \in ScheduledCells(today)}

\* a row every filter keeps: arrived on the second day of the window and
\* scheduled for the third
GoodRow(today) ==
    FullRow(Date(ReferenceWindow(today).first + TicksPerDay), Null,
            Date(ReferenceWindow(today).first + 2 * TicksPerDay), Str(s_Trailer))

\* a workbook that is processed; its data ends at the blank row
GoodBook(today) ==
    Workbook(s_store_xlsx, FullHeaderRow, FullSubheaderRow,
             <<GoodRow(today), BlankRow(Len(FullHeaderRow)), GoodRow(today)>>)

\* GoodBook with one more column, holding v
BookWithColumn(today, name, v) ==
    Workbook(s_store_xlsx, Append(FullHeaderRow, Str(name)), Append(FullSubheaderRow, Null),
             <<Append(GoodRow(today), v)>>)

\* a workbook with two columns under one header
BookWithTwin(today, name) ==
    Workbook(s_store_xlsx, FullHeaderRow \o <<Str(name), Str(name)>>,
             FullSubheaderRow \o <<Null, Null>>,
             <<GoodRow(today) \o <<Str(s_A1), Str(s_na)>>>>)

\* a workbook that fills every column FormatCSV.py gives a header to
CompleteBook(today) ==
    Workbook(s_store_xlsx,
             <<Str(ShipperOrder), Str(LineUp), Str(CaseNo), Str(CaseModel), Str(SerialNo),
               Str(ArrivedAtWarehouse), Str(StorageStarts), Str(StorageEnds),
               Str(ScheduledAPPT), Null, Str(WarehouseLocation), Str(DamageYN),
               Str(DeliveryTrailer), Str(DaysInStorage), Str(SquareFootageOfCase),
               Str(StorageCharge), Str(ExtendedPrice)>>,
             <<Null, Null, Null, Null, Null, Null, Null, Null, Str(s_Date), Str(s_Tme),
               Null, Null, Null, Null, Null, Null, Null>>,
             <<<<Str(s_A1), Num(1), Str(s_C1), Str(s_A1), Str(s_A1),
                 Date(ReferenceWindow(today).first + TicksPerDay), Null, Null,
                 Date(ReferenceWindow(today).first + 2 * TicksPerDay), Str(s_1430),
                 Str(s_A1), Str(s_na), Str(s_A1), Num(31), Num(100), Num(2), Num(266)>>>>)

\* a workbook without most of the columns the formulas of the report refer to
LeanBook(today) ==
    Workbook(s_store_xlsx,
             <<Str(CaseNo), Str(ArrivedAtWarehouse), Str(ScheduledAPPT), Null>>,
             <<Null, Null, Str(s_Date), Str(s_Tme)>>,
             <<<<Str(s_C1), Date(ReferenceWindow(today).first),
                Date(ReferenceWindow(today).last), Str(s_1430)>>>>)

\* a workbook without 'Arrived @ Warehouse'
BookWithoutArrived ==
    Workbook(s_store_xlsx, <<Str(CaseNo), Str(ScheduledAPPT), Null>>,
             <<Null, Str(s_Date), Str(s_Tme)>>,
             <<<<Str(s_C1), Date(Datetime(2026, 1, 15)), Str(s_1430)>>>>)

Books(today) ==
    {GoodBook(today),
     BookWithColumn(today, WarehouseLocation, Null),
     BookWithColumn(today, WarehouseLocation, Str(s_A1)),
     BookWithColumn(today, s_Foo, Null),
     BookWithColumn(today, s_Foo, Str(s_A1)),
     BookWithTwin(today, CaseModel),
     BookWithTwin(today, DateStripped),
     CompleteBook(today),
     LeanBook(today),
     BookWithoutArrived,
     [GoodBook(today) EXCEPT !.sheetnames = {s_CostEstimate, s_Summary}],
     [GoodBook(today) EXCEPT !.I5 = Null],
     [GoodBook(today) EXCEPT !.rows = <<BlankRow(Len(FullHeaderRow))>>],
     [GoodBook(today) EXCEPT !.path = s_ConsolidatedXlsx],
     [GoodBook(today) EXCEPT !.path = s_notes_txt],
     [GoodBook(today) EXCEPT !.loads = FALSE],
     [GoodBook(today) EXCEPT !.I10 = Null, !.I12 = Null],
     [GoodBook(today) EXCEPT !.I12 = Str(s_Shelbyville)],
     Workbook(s_store_xlsx, FullHeaderRow, FullSubheaderRow,
              <<FullRow(Date(ReferenceWindow(today).first), Null, Null, Str(s_Yard))>>)}

Listings(today) == UNION {[1..n -> Books(today)] : n \in 0..MaxFiles}

\* one folder of up to MaxFiles entries; or a folder that does not exist next
\* to a folder of one entry; or two folders of one entry each
FileScenarios(today) ==
    {<<Folder(s_Alberta, l)>> : l \in Listings(today)}
    \cup {<<MissingFolder(s_Quebec), Folder(s_Alberta, <<b>>)>> : b \in Books(today)}
    \cup {<<Folder(s_Alberta, <<a>>), Folder(s_Quebec, <<b>>)>> :
             a, b \in {GoodBook(today), [GoodBook(today) EXCEPT !.I5 = Null]}}

Scenarios(today) == DateScenarios(today) \cup FileScenarios(today)

----------------------------------------------------------------------------
(* Spec: one run of main(), GenerateMasterCSV.py 571-620 *)

\* os.path.join(folder_path, file), line 406
JoinPath(folder_path, file) == folder_path \o <<"\\">> \o file

\* str.endswith
EndsWith(s, suffix) ==
    Len(s) >= Len(suffix) /\ SubSeq(s, Len(s) - Len(suffix) + 1, Len(s)) = suffix

CurrentFolder == folders[folder_idx]

\* the listing entry under its full path
CurrentFile ==
    [CurrentFolder.listing[file_idx] EXCEPT
        !.path = JoinPath(CurrentFolder.path, CurrentFolder.listing[file_idx].path)]

AtEntry ==
    /\ pc = "scan"
    /\ folder_idx <= Len(folders)
    /\ CurrentFolder.exists
    /\ file_idx <= Len(CurrentFolder.listing)

\* the processor before process_folders is called: as __init__ leaves it
\* (lines 50-53), or with the counters an earlier call over up to MaxFiles
\* files left in it
Init ==
    /\ HeadersIdle
    /\ TitlesIdle
    /\ clock \in ClockMonths
    /\ clock_steps = 0
    /\ folders \in Scenarios(clock)
    /\ pc = "start"
    /\ folder_idx = 1
    /\ file_idx = 1
    /\ df = NoFrame
    /\ all_data_frames = <<>>
    /\ processed_files \in 0..MaxFiles
    /\ skipped_files \in 0..(MaxFiles - processed_files)
    /\ consolidated = NoFrame
    /\ output = NoFrame
    /\ exit_code = 0
    /\ prev_df = NoFrame
    /\ step_clock = clock
    /\ frame_clocks = <<>>
    /\ save_clock = clock
    /\ frame_sources = <<>>
    /\ workbook = NoWorkbook
    /\ todo = {}

StartRun_CountersKept ==
    /\ pc = "start"
    /\ pc' = "scan"
    /\ all_data_frames' = <<>>
    /\ frame_clocks' = <<>>
    /\ frame_sources' = <<>>
    /\ folder_idx' = 1
    /\ file_idx' = 1
    /\ UNCHANGED <<processed_files, skipped_files, clock, clock_steps, folders, df, consolidated, output, exit_code,
                   prev_df, step_clock, save_clock, hvars, tvars, workbook, todo>>

\* process_folders, lines 393-395
StartRun ==
    /\ pc = "start"
    /\ pc' = "scan"
    /\ all_data_frames' = <<>>
    /\ frame_clocks' = <<>>
    /\ frame_sources' = <<>>
    /\ processed_files' = 0
    /\ skipped_files' = 0
    /\ folder_idx' = 1
    /\ file_idx' = 1
    /\ UNCHANGED <<clock, clock_steps, folders, df, consolidated, output, exit_code,
                   prev_df, step_clock, save_clock, hvars, tvars, workbook, todo>>

\* lines 398-400
FolderNotFound ==
    /\ pc = "scan"
    /\ folder_idx <= Len(folders)
    /\ ~CurrentFolder.exists
    /\ folder_idx' = folder_idx + 1
    /\ file_idx' = 1
    /\ UNCHANGED <<clock, clock_steps, folders, pc, df, all_data_frames, processed_files,
                   skipped_files, consolidated, output, exit_code, prev_df, step_clock,
                   frame_clocks, frame_sources, save_clock, hvars, tvars, workbook, todo>>

\* line 404: the listing of the folder is exhausted
EndOfListing ==
    /\ pc = "scan"
    /\ folder_idx <= Len(folders)
    /\ CurrentFolder.exists
    /\ file_idx > Len(CurrentFolder.listing)
    /\ folder_idx' = folder_idx + 1
    /\ file_idx' = 1
    /\ UNCHANGED <<clock, clock_steps, folders, pc, df, all_data_frames, processed_files,
                   skipped_files, consolidated, output, exit_code, prev_df, step_clock,
                   frame_clocks, frame_sources, save_clock, hvars, tvars, workbook, todo>>

\* line 405: an entry that does not end in .xlsx is passed over
NotXlsx ==
    /\ AtEntry
    /\ ~EndsWith(CurrentFolder.listing[file_idx].path, s_dot_xlsx)
    /\ file_idx' = file_idx + 1
    /\ UNCHANGED <<clock, clock_steps, folders, pc, folder_idx, df, all_data_frames,
                   processed_files, skipped_files, consolidated, output, exit_code,
                   prev_df, step_clock, frame_clocks, frame_sources, save_clock, hvars, tvars, workbook, todo>>

\* process_file lines 65-89 and _transform_data line 243: the workbook is read
\* and its date columns coerced; a file that yields no frame is skipped
\* (lines 411-412)
OpenFile ==
    /\ AtEntry
    /\ EndsWith(CurrentFolder.listing[file_idx].path, s_dot_xlsx)
    /\ LET f == ReadFile(CurrentFile)
           g == IF f = NoFrame \/ IsEmpty(f) THEN NoFrame ELSE ConvertDateColumns(f)
       IN IF g = NoFrame
          THEN /\ skipped_files' = skipped_files + 1
               /\ file_idx' = file_idx + 1
               /\ UNCHANGED <<pc, df>>
          ELSE /\ df' = g
               /\ pc' = "arrived"
               /\ UNCHANGED <<skipped_files, file_idx>>
    /\ UNCHANGED <<clock, clock_steps, folders, folder_idx, all_data_frames,
                   processed_files, consolidated, output, exit_code, prev_df, step_clock,
                   frame_clocks, frame_sources, save_clock, hvars, tvars, workbook, todo>>

\* _apply_date_filters, lines 318-327, reading the clock at line 320
ApplyArrivedFilter ==
    /\ pc = "arrived"
    /\ prev_df' = df
    /\ step_clock' = clock
    /\ df' = FilterArrived(df, clock)
    /\ pc' = "ends"
    /\ UNCHANGED <<clock, clock_steps, folders, folder_idx, file_idx, all_data_frames,
                   processed_files, skipped_files, consolidated, output, exit_code,
                   frame_clocks, frame_sources, save_clock, hvars, tvars, workbook, todo>>

\* _apply_date_filters, lines 330-346, reading the clock at line 331
ApplyStorageEndsFilter ==
    /\ pc = "ends"
    /\ prev_df' = df
    /\ step_clock' = clock
    /\ df' = FilterStorageEnds(df, clock)
    /\ pc' = "transform"
    /\ UNCHANGED <<clock, clock_steps, folders, folder_idx, file_idx, all_data_frames,
                   processed_files, skipped_files, consolidated, output, exit_code,
                   frame_clocks, frame_sources, save_clock, hvars, tvars, workbook, todo>>

\* _transform_data lines 249-273 (the clock is read at line 252), process_file
\* lines 95-103 and process_folders lines 408-412
FinishFile ==
    /\ pc = "transform"
    /\ LET a == ApplyLocationFilters(df)
           b == IF a = NoFrame THEN NoFrame ELSE ClampFile(a, clock)
           c == IF b = NoFrame THEN NoFrame ELSE AddHeaderInfo(b, HeaderInfo(CurrentFile))
       IN IF c = NoFrame \/ IsEmpty(c)
          THEN /\ skipped_files' = skipped_files + 1
               /\ UNCHANGED <<all_data_frames, frame_clocks, frame_sources, processed_files>>
          ELSE /\ all_data_frames' = Append(all_data_frames, c)
               /\ frame_clocks' = Append(frame_clocks, clock)
               /\ frame_sources' = Append(frame_sources, <<folder_idx, file_idx>>)
               /\ processed_files' = processed_files + 1
               /\ UNCHANGED skipped_files
    /\ prev_df' = df
    /\ step_clock' = clock
    /\ df' = NoFrame
    /\ file_idx' = file_idx + 1
    /\ pc' = "scan"
    /\ UNCHANGED <<clock, clock_steps, folders, folder_idx, consolidated, output,
                   exit_code, save_clock, hvars, tvars, workbook, todo>>

\* process_folders lines 414-418: ValueError when nothing was processed, else
\* the consolidation; an exception makes main() return 1 (lines 616-618)
EndFolders ==
    /\ pc = "scan"
    /\ folder_idx > Len(folders)
    /\ IF all_data_frames = <<>>
       THEN /\ exit_code' = 1
            /\ pc' = "done"
            /\ UNCHANGED consolidated
       ELSE /\ consolidated' = ConsolidateDataframes(all_data_frames)
            /\ IF consolidated' = Raise
               THEN exit_code' = 1 /\ pc' = "done"
               ELSE pc' = "save" /\ UNCHANGED exit_code
    /\ UNCHANGED <<clock, clock_steps, folders, folder_idx, file_idx, df, all_data_frames,
                   processed_files, skipped_files, output, prev_df, step_clock,
                   frame_clocks, frame_sources, save_clock, hvars, tvars, workbook, todo>>

\* save_consolidated_report, lines 504-568 (the clock is read at line 506),
\* and the return of main(): the workbook is on disk from line 543 on, also
\* when the formula loop then raises KeyError
SaveReport ==
    /\ pc = "save"
    /\ save_clock' = clock
    /\ LET clamped == ClampConsolidated(consolidated, clock) IN
       IF clamped = Raise
       THEN exit_code' = 1 /\ UNCHANGED output
       ELSE LET written == DropHiddenColumns(clamped) IN
            IF \A c \in FormulaColumns : HasCol(written, c)
            THEN output' = InjectFormulas(written) /\ exit_code' = 0
            ELSE output' = written /\ exit_code' = 1
    /\ pc' = "done"
    /\ UNCHANGED <<clock, clock_steps, folders, folder_idx, file_idx, df, all_data_frames,
                   processed_files, skipped_files, consolidated, prev_df, step_clock,
                   frame_clocks, frame_sources, hvars, tvars, workbook, todo>>

\* the wall clock passes into the next month while the run is in progress
Tick ==
    /\ pc \notin {"idle", "done", "stores", "formatted", "unformatted"}
    /\ clock_steps < MaxClockSteps
    /\ clock_steps' = clock_steps + 1
    /\ clock' = IF clock.month = 12 THEN [year |-> clock.year + 1, month |-> 1]
                ELSE [year |-> clock.year, month |-> clock.month + 1]
    /\ UNCHANGED <<folders, pc, folder_idx, file_idx, df, all_data_frames,
                   processed_files, skipped_files, consolidated, output, exit_code,
                   prev_df, step_clock, frame_clocks, frame_sources, save_clock, hvars, tvars, workbook, todo>>

\* FormatCSV.py lines 45-162, run on the report the run left on disk: the
\* Master sheet is formatted and the stores of its first column collected.
\* A report whose formula loop raised was never saved under the title
\* 'Master' (GenerateMasterCSV.py 546 and 566), and wb["Master"] of line 48
\* raises KeyError
FormatMaster ==
    /\ pc = "done"
    /\ output # NoFrame
    /\ IF exit_code = 0
       THEN /\ workbook' = [master |-> FormatMasterSheet(WrittenSheet(output),
                                                         BannerText(clock)),
                            banner |-> BannerText(clock),
                            sheets |-> <<>>]
            /\ todo' = StoreValues(workbook'.master)
            /\ pc' = "stores"
       ELSE /\ pc' = "unformatted"
            /\ UNCHANGED <<workbook, todo>>
    /\ UNCHANGED <<clock, clock_steps, folders, folder_idx, file_idx, df, all_data_frames,
                   processed_files, skipped_files, consolidated, output, exit_code,
                   prev_df, step_clock, frame_clocks, frame_sources, save_clock, hvars,
                   tvars>>

\* lines 165-234: one pass of the loop over the set of stores, which Python
\* walks in an order of its own
FormatStore ==
    /\ pc = "stores"
    /\ \E store \in todo :
          /\ workbook' =
                [workbook EXCEPT
                    !.sheets = Append(@, [store |-> store,
                                          title |-> SanitizeSheetTitle(StoreText(store),
                                                                       SheetNames(@)),
                                          rows |-> StoreSheet(workbook.master, store,
                                                              workbook.banner)])]
          /\ todo' = todo \ {store}
    /\ UNCHANGED <<clock, clock_steps, folders, pc, folder_idx, file_idx, df,
                   all_data_frames, processed_files, skipped_files, consolidated, output,
                   exit_code, prev_df, step_clock, frame_clocks, frame_sources, save_clock,
                   hvars, tvars>>

\* line 237: wb.save once every store has its sheet
FormatSave ==
    /\ pc = "stores"
    /\ todo = {}
    /\ pc' = "formatted"
    /\ UNCHANGED <<clock, clock_steps, folders, folder_idx, file_idx, df, all_data_frames,
                   processed_files, skipped_files, consolidated, output, exit_code,
                   prev_df, step_clock, frame_clocks, frame_sources, save_clock, workbook,
                   todo, hvars, tvars>>

Next ==
    \/ StartRun
    \/ FolderNotFound
    \/ EndOfListing
    \/ NotXlsx
    \/ OpenFile
    \/ ApplyArrivedFilter
    \/ ApplyStorageEndsFilter
    \/ FinishFile
    \/ EndFolders
    \/ SaveReport
    \/ FormatMaster
    \/ FormatStore
    \/ FormatSave
    \/ Tick

Spec == Init /\ [][Next]_vars

----------------------------------------------------------------------------
(* Claims on Spec: the temporal filter *)

\* midnight of the first day of the month of a clock reading
FirstOfMonth(c) == Datetime(c.year, c.month, 1)

\* midnight of the first day of the month before a clock reading
FirstOfPreviousMonth(c) ==
    IF c.month = 1 THEN Datetime(c.year - 1, 12, 1) ELSE Datetime(c.year, c.month - 1, 1)

ArrivedOf(f, row) == Cell(f, row, ArrivedAtWarehouse)

StorageEndsOf(f, row) == Cell(f, row, StorageEnds)

\* the Arrived @ Warehouse filter has just run on a frame with that column
ArrivedFilterRan == pc = "ends" /\ HasCol(prev_df, ArrivedAtWarehouse)

\* the Storage Ends filter has just run on a frame with that column
StorageEndsFilterRan == pc = "transform" /\ HasCol(prev_df, StorageEnds)

StrictlyBetween(v, c) == Datetime(2000, 1, 1) < v.date /\ v.date < FirstOfMonth(c)

\* C3: when the Arrived @ Warehouse filter has run, the records with a
\* non-null Arrived @ Warehouse that remain are exactly the records whose
\* value is strictly after 2000-01-01 and strictly before the first day of
\* the month the filter read from the clock; in particular a value equal to
\* either bound is dropped.  A calendar day stands for its midnight, the
\* instant the code compares with.
C3_ArrivedPredicate ==
    ArrivedFilterRan =>
        /\ SelectSeq(df.rows, LAMBDA row : ArrivedOf(df, row) # Null)
             = SelectSeq(prev_df.rows,
                         LAMBDA row : /\ ArrivedOf(prev_df, row) # Null
                                      /\ StrictlyBetween(ArrivedOf(prev_df, row), step_clock))
        /\ \A r \in 1..Len(df.rows) :
              /\ ArrivedOf(df, df.rows[r]) # Date(Datetime(2000, 1, 1))
              /\ ArrivedOf(df, df.rows[r]) # Date(FirstOfMonth(step_clock))

\* the filter dropped a record that arrived on the first day of the current
\* month, and nothing else was in the frame
C3_Witness ==
    /\ ArrivedFilterRan
    /\ \E r \in 1..Len(prev_df.rows) :
          ArrivedOf(prev_df, prev_df.rows[r]) = Date(FirstOfMonth(step_clock))
    /\ df.rows = <<>>

\* C4: when the Arrived @ Warehouse filter has run, every record whose
\* Arrived @ Warehouse is null is still in the frame.
C4_NullArrivedKept ==
    ArrivedFilterRan =>
        SelectSeq(df.rows, LAMBDA row : ArrivedOf(df, row) = Null)
          = SelectSeq(prev_df.rows, LAMBDA row : ArrivedOf(prev_df, row) = Null)

StorageEndsSurvives(v, c) ==
    \/ v = Null
    \/ v.date <= Datetime(2000, 1, 31)
    \/ v.date >= FirstOfPreviousMonth(c)

\* C5: when the Storage Ends filter has run, the records that remain are
\* exactly those whose Storage Ends is null, or on or before 2000-01-31, or on
\* or after the first day of the month before the one the filter read from
\* the clock (December of the year before when that month is January).
C5_StorageEndsPredicate ==
    StorageEndsFilterRan =>
        df.rows = SelectSeq(prev_df.rows,
                            LAMBDA row : StorageEndsSurvives(StorageEndsOf(prev_df, row),
                                                             step_clock))

\* in January the filter kept a record whose Storage Ends is the first of
\* December of the year before
C5_Witness ==
    /\ StorageEndsFilterRan
    /\ step_clock.month = 1
    /\ \E r \in 1..Len(df.rows) :
          StorageEndsOf(df, df.rows[r]) = Date(Datetime(step_clock.year - 1, 12, 1))

----------------------------------------------------------------------------
(* Claims on Spec: the StoragePeriodResolver *)

\* the Reference Window of a clock reading: midnight of the first and of the
\* last day of the month before
WindowOf(c) == [first |-> FirstOfPreviousMonth(c), last |-> FirstOfMonth(c) - TicksPerDay]

InsideWindow(v, w) == v # Null /\ IsDate(v) /\ w.first <= v.date /\ v.date <= w.last

\* the per-file resolver has run on f: it holds the source and the target column
StartsResolved(f) == HasCol(f, ArrivedAtWarehouse) /\ HasCol(f, StorageStarts)

EndsResolved(f) == HasCol(f, ScheduledDate) /\ HasCol(f, StorageEnds)

\* the rule of the resolver holds in every row of f for the window of c
RuleHolds(f, c) ==
    LET w == WindowOf(c) IN
    \A r \in 1..Len(f.rows) :
       LET row == f.rows[r] IN
       /\ StartsResolved(f) =>
             /\ Cell(f, row, StorageStarts)
                  = IF InsideWindow(ArrivedOf(f, row), w) THEN ArrivedOf(f, row)
                    ELSE Date(w.first)
             /\ InsideWindow(Cell(f, row, StorageStarts), w)
       /\ EndsResolved(f) =>
             /\ Cell(f, row, StorageEnds)
                  = IF InsideWindow(Cell(f, row, ScheduledDate), w)
                    THEN Cell(f, row, ScheduledDate) ELSE Date(w.last)
             /\ InsideWindow(Cell(f, row, StorageEnds), w)

\* C2: in every record set the per-file resolver has handed on, and in the
\* report once the final resolver has run, Storage Starts is Arrived @
\* Warehouse when that is non-null and inside the Reference Window of the
\* clock reading the resolver used, else the window's first day; Storage Ends
\* is Scheduled Date when that is non-null and inside the window, else the
\* window's last day; both lie inside the window.  The first and the last day
\* are their midnights, the instants the code compares with.
C2_ResolverRule ==
    /\ \A i \in 1..Len(all_data_frames) : RuleHolds(all_data_frames[i], frame_clocks[i])
    /\ output # NoFrame => RuleHolds(output, save_clock)

\* the report holds a record that arrived inside the window and is scheduled
\* outside it: it starts on its arrival and ends on the window's last day
C2_Witness ==
    /\ pc = "done"
    /\ output # NoFrame
    /\ \E r \in 1..Len(output.rows) :
          LET row == output.rows[r]
              w == WindowOf(save_clock)
          IN /\ InsideWindow(ArrivedOf(output, row), w)
             /\ ArrivedOf(output, row) # Date(w.first)
             /\ Cell(output, row, StorageStarts) = ArrivedOf(output, row)
             /\ Cell(output, row, ScheduledDate) # Null
             /\ ~InsideWindow(Cell(output, row, ScheduledDate), w)
             /\ Cell(output, row, StorageEnds) = Date(w.last)

\* every record of the report was resolved per file, under the window the
\* final resolver used
ResolvedTwiceUnderOneWindow ==
    /\ pc = "done"
    /\ output # NoFrame
    /\ \A i \in 1..Len(all_data_frames) :
          /\ StartsResolved(all_data_frames[i])
          /\ EndsResolved(all_data_frames[i])
          /\ frame_clocks[i] = save_clock

\* C1: when every record was resolved per file and the Reference Window is
\* the same for both applications, the second application of the resolver,
\* on the Consolidated Table, leaves Storage Starts and Storage Ends of every
\* record as the Consolidated Table held them.
C1_ResolverIdempotent ==
    ResolvedTwiceUnderOneWindow =>
        \A r \in 1..Len(output.rows) :
           /\ Cell(output, output.rows[r], StorageStarts)
                = Cell(consolidated, consolidated.rows[r], StorageStarts)
           /\ Cell(output, output.rows[r], StorageEnds)
                = Cell(consolidated, consolidated.rows[r], StorageEnds)

----------------------------------------------------------------------------
(* Claims on Spec: the schema union of _consolidate_dataframes *)

\* process_folders has returned the Consolidated Table
Consolidated == consolidated # NoFrame /\ consolidated # Raise

\* record set i holds a non-missing value in column k
Contributes(i, k) ==
    \E r \in 1..Len(all_data_frames[i].rows) : all_data_frames[i].rows[r][k] # Null

\* a processed file contributed a non-missing value under the name
ContributedAs(name) ==
    \E i \in 1..Len(all_data_frames) :
       \E k \in 1..Len(all_data_frames[i].cols) :
          all_data_frames[i].cols[k] = name /\ Contributes(i, k)

\* a processed file contributed a non-missing value under the name or under
\* the name followed by an underscore and more
ContributedUnderBase(name) ==
    \E i \in 1..Len(all_data_frames) :
       \E k \in 1..Len(all_data_frames[i].cols) :
          CollapseName(all_data_frames[i].cols[k]) = name /\ Contributes(i, k)

\* the names a column of a record set or of the Consolidated Table can bear
ColumnNames ==
    {COLUMN_ORDER[k] : k \in 1..Len(COLUMN_ORDER)}
    \cup {consolidated.cols[k] : k \in 1..Len(consolidated.cols)}
    \cup UNION {{all_data_frames[i].cols[k] : k \in 1..Len(all_data_frames[i].cols)} :
                  i \in 1..Len(all_data_frames)}

\* C9 as the spec states it: a column is in the Consolidated Table if and only
\* if a processed file contributed a non-missing value for it, whatever the
\* column's name.
C9_SchemaUnion ==
    Consolidated =>
        \A name \in ColumnNames : HasCol(consolidated, name) <=> ContributedAs(name)

\* C9, amended: a column is in the Consolidated Table if and only if it is
\* named in COLUMN_ORDER and a processed file contributed a non-missing value
\* under that name or under a dedup-suffixed form of it; a column that
\* COLUMN_ORDER does not name is never in the Consolidated Table.
C9_SchemaUnionCanonical ==
    Consolidated =>
        \A name \in ColumnNames :
           HasCol(consolidated, name)
             <=> /\ \E k \in 1..Len(COLUMN_ORDER) : COLUMN_ORDER[k] = name
                 /\ ContributedUnderBase(name)

\* file A has 'Warehouse Location' entirely missing, file B has it with a
\* value, and the Consolidated Table holds the column
C9_Witness ==
    /\ Consolidated
    /\ HasCol(consolidated, WarehouseLocation)
    /\ Len(all_data_frames) = 2
    /\ HasCol(all_data_frames[1], WarehouseLocation)
    /\ \A r \in 1..Len(all_data_frames[1].rows) :
          Cell(all_data_frames[1], all_data_frames[1].rows[r], WarehouseLocation) = Null
    /\ \E r \in 1..Len(all_data_frames[2].rows) :
          Cell(all_data_frames[2], all_data_frames[2].rows[r], WarehouseLocation) # Null

----------------------------------------------------------------------------
(* Claims on Spec: the outcome of the run *)

\* main() has returned
Returned == pc \in {"done", "stores", "formatted", "unformatted"}

\* C12: the run returns a failure indication if and only if no file was
\* successfully processed; with at least one file processed it returns
\* success, whatever was skipped and whatever columns the records have.
C12_ExitBehaviour ==
    Returned => (exit_code = 1 <=> processed_files = 0)

\* C13: a run that ends with a failure indication has written no output
\* workbook.
C13_NoPartialOutput ==
    (Returned /\ exit_code = 1) => output = NoFrame

\* the clock readings the window-dependent steps of the run have used so far:
\* the filter at work, the per-file clamps, the final clamp
WindowReadings ==
    {frame_clocks[i] : i \in 1..Len(frame_clocks)}
    \cup (IF pc \in {"ends", "transform"} THEN {step_clock} ELSE {})
    \cup (IF Returned /\ Consolidated THEN {save_clock} ELSE {})

\* C15: every window-dependent step of one run uses the same Reference
\* Window, also when the wall clock passes into the next month meanwhile.
C15_WindowConstant ==
    \A c, d \in WindowReadings : WindowOf(c) = WindowOf(d)

\* the value record set i holds in row r under the first column whose name
\* collapses to the name
FirstVariantValue(i, r, name) ==
    LET f == all_data_frames[i]
        ks == {k \in 1..Len(f.cols) : CollapseName(f.cols[k]) = name}
    IN f.rows[r][CHOOSE k \in ks : \A j \in ks : k <= j]

\* C16: a suffixed column and its unsuffixed base alias onto exactly one
\* column of the Consolidated Table, which holds the value of the first
\* occurrence.
C16_AliasCollapse ==
    Consolidated =>
        \A name \in ColumnNames :
           HasCol(consolidated, name) =>
              /\ Cardinality(ColPositions(consolidated, name)) = 1
              /\ Len(all_data_frames) = 1 =>
                    \A r \in 1..Len(consolidated.rows) :
                       Cell(consolidated, consolidated.rows[r], name)
                         \in {FirstVariantValue(1, r, name),
                              DateCellOnly(FirstVariantValue(1, r, name))}

----------------------------------------------------------------------------
(* Claims on Spec: the order of the steps *)

\* the rows of the Inventory sheet of the workbook being processed
SourceRows == CurrentFolder.listing[file_idx].rows

\* a row of a frame is a row of the source with at most its dates coerced
IsSourceRow(row) ==
    \E s \in 1..Len(SourceRows) :
       /\ Len(SourceRows[s]) = Len(row)
       /\ \A k \in 1..Len(row) :
             row[k] = SourceRows[s][k]
             \/ (row[k] = Null /\ ~IsDate(SourceRows[s][k]))

\* the date columns the filters read hold dates or nothing
DatesCoerced(f) ==
    \A r \in 1..Len(f.rows) :
       \A k \in 1..Len(f.cols) :
          f.cols[k] \in {ArrivedAtWarehouse, StorageEnds}
             => (f.rows[r][k] = Null \/ IsDate(f.rows[r][k]))

RECURSIVE TotalRows(_)
TotalRows(frames) ==
    IF frames = <<>> THEN 0 ELSE Len(Head(frames).rows) + TotalRows(Tail(frames))

\* C20: per file the dates are coerced before the temporal filter runs; the
\* filters run on the source values, before the clamp, so that the Storage
\* Ends predicate never sees a clamped value; every record set handed to
\* consolidation has been clamped; the final clamp and the report come only
\* after every folder is done and all record sets are consolidated.
C20_PipelineOrder ==
    /\ pc \in {"arrived", "ends", "transform"} =>
          /\ DatesCoerced(df)
          /\ \A r \in 1..Len(df.rows) : IsSourceRow(df.rows[r])
    /\ pc \in {"ends", "transform"} =>
          /\ DatesCoerced(prev_df)
          /\ \A r \in 1..Len(prev_df.rows) : IsSourceRow(prev_df.rows[r])
    /\ \A i \in 1..Len(all_data_frames) :
          RuleHolds(all_data_frames[i], frame_clocks[i])
    /\ consolidated # NoFrame =>
          /\ folder_idx > Len(folders)
          /\ pc = "save" \/ Returned
          /\ Consolidated => Len(consolidated.rows) = TotalRows(all_data_frames)
    /\ output # NoFrame => (Returned /\ Consolidated)

\* the Storage Ends filter has kept a record on its source Storage Ends, a
\* date on which the clamp would not have left it
C20_Witness ==
    /\ StorageEndsFilterRan
    /\ \E r \in 1..Len(df.rows) :
          /\ IsDate(StorageEndsOf(df, df.rows[r]))
          /\ ~InsideWindow(StorageEndsOf(df, df.rows[r]), WindowOf(step_clock))
          /\ \E s \in 1..Len(SourceRows) :
                SourceRows[s][4] = StorageEndsOf(df, df.rows[r])

----------------------------------------------------------------------------
(* Claims on Spec: a file that fails *)

\* the entries process_folders hands to process_file, as <<folder, entry>>
XlsxEntries ==
    {e \in {<<i, k>> : i \in 1..Len(folders), k \in 1..MaxFiles} :
        /\ folders[e[1]].exists
        /\ e[2] <= Len(folders[e[1]].listing)
        /\ EndsWith(folders[e[1]].listing[e[2]].path, s_dot_xlsx)}

EntryFile(e) ==
    [folders[e[1]].listing[e[2]] EXCEPT
        !.path = JoinPath(folders[e[1]].path, folders[e[1]].listing[e[2]].path)]

\* the failures the claim names: the workbook cannot be opened, a required
\* sheet is missing, the PO number is absent, there is no data row
FileFails(file) ==
    \/ ~file.loads
    \/ s_CostEstimate \notin file.sheetnames
    \/ s_Inventory \notin file.sheetnames
    \/ file.I5 = Null
    \/ DataRows(file.rows) = <<>>

EnumeratedBefore(e, f) == e[1] < f[1] \/ (e[1] = f[1] /\ e[2] < f[2])

\* what process_file returns for the file alone, under one reading of the clock
SoloFrame(file, today) ==
    LET f == ReadFile(file)
        g == IF f = NoFrame \/ IsEmpty(f) THEN NoFrame ELSE ConvertDateColumns(f)
        h == IF g = NoFrame THEN NoFrame
             ELSE ApplyLocationFilters(FilterStorageEnds(FilterArrived(g, today), today))
        b == IF h = NoFrame THEN NoFrame ELSE ClampFile(h, today)
        c == IF b = NoFrame THEN NoFrame ELSE AddHeaderInfo(b, HeaderInfo(file))
    IN IF c = NoFrame \/ IsEmpty(c) THEN NoFrame ELSE c

\* the frames of a run over the folders from entry <<i, k>> on, with the
\* failing files taken out of the listings
RECURSIVE FramesWithoutFailing(_, _, _)
FramesWithoutFailing(i, k, today) ==
    IF i > Len(folders) THEN <<>>
    ELSE IF ~folders[i].exists \/ k > Len(folders[i].listing)
    THEN FramesWithoutFailing(i + 1, 1, today)
    ELSE LET fr == IF <<i, k>> \notin XlsxEntries \/ FileFails(EntryFile(<<i, k>>))
                   THEN NoFrame
                   ELSE SoloFrame(EntryFile(<<i, k>>), today)
         IN (IF fr = NoFrame THEN <<>> ELSE <<fr>>) \o FramesWithoutFailing(i, k + 1, today)

LoopEnded == pc = "save" \/ Returned

\* C14: a file that fails (it cannot be opened, a required sheet is
\* missing, the PO number is absent, or it has no data row) is the source of
\* no frame; the loop still reaches every entry, each counted as processed
\* or skipped; and the frames collected are the frames of the same run with
\* the failing files taken out of the folders.
C14_FailureIsolation ==
    /\ \A i \in 1..Len(frame_sources) : ~FileFails(EntryFile(frame_sources[i]))
    /\ LoopEnded => processed_files + skipped_files = Cardinality(XlsxEntries)
    /\ (LoopEnded /\ clock_steps = 0) =>
          all_data_frames = FramesWithoutFailing(1, 1, clock)

\* a failing file was enumerated before a file that contributed its frame
C14_Witness ==
    /\ LoopEnded
    /\ clock_steps = 0
    /\ \E e \in XlsxEntries :
          /\ FileFails(EntryFile(e))
          /\ \E i \in 1..Len(frame_sources) : EnumeratedBefore(e, frame_sources[i])

----------------------------------------------------------------------------
(* Claims on Spec: the end-to-end scenario *)

\* one folder holding one valid workbook with PO123, 'Store #45' in
\* 'Springfield' and one data row, Arrived @ Warehouse inside the window of
\* the clock, Scheduled Date a date outside it, Storage Ends not filled in
EndToEndScenario ==
    /\ Len(folders) = 1
    /\ folders[1].exists
    /\ Len(folders[1].listing) = 1
    /\ LET file == folders[1].listing[1] IN
       /\ ~FileFails(file)
       /\ EndsWith(file.path, s_dot_xlsx)
       /\ file.I5 = Str(s_PO123)
       /\ FullStoreName(file.I10, file.I12) = Str(s_Store45 \o <<" ">> \o s_Springfield)
       /\ file.header_row = FullHeaderRow
       /\ Len(file.rows) = 1
       /\ InsideWindow(file.rows[1][2], WindowOf(clock))
       /\ file.rows[1][4] = Null
       /\ IsDate(file.rows[1][5])
       /\ ~InsideWindow(file.rows[1][5], WindowOf(clock))
    /\ clock_steps = 0

\* the scenario's row as a sheet shows it: under the store, with Storage
\* Starts the row's Arrived @ Warehouse and Storage Ends the last day of the
\* window
ScenarioRowIn(cols, row) ==
    LET at(name) == row[CHOOSE k \in 1..Len(cols) : cols[k] = name] IN
    /\ at(PoFromLoblaw) = Str(s_PO123)
    /\ at(StorageStarts) = folders[1].listing[1].rows[1][2]
    /\ at(StorageEnds) = Date(WindowOf(clock).last)

FormatEnded == pc \in {"formatted", "unformatted"}

\* C11: the scenario run ends in success with the row in the master table,
\* Storage Starts equal to its Arrived @ Warehouse and Storage Ends equal to
\* the last day of the window; and once the sheets are made, the workbook
\* has a sheet named 'Store #45 <MM.YY>' holding the row.
C11_EndToEnd ==
    /\ (EndToEndScenario /\ Returned) =>
          /\ exit_code = 0
          /\ output # NoFrame
          /\ \E r \in 1..Len(output.rows) : ScenarioRowIn(output.cols, output.rows[r])
    /\ (EndToEndScenario /\ FormatEnded) =>
          /\ workbook # NoWorkbook
          /\ \E i \in 1..Len(workbook.sheets) :
                /\ workbook.sheets[i].title =
                      StoreSheetName(s_Store45 \o <<" ">> \o s_Springfield, clock)
                /\ Len(workbook.sheets[i].rows) > HeaderRowNo

----------------------------------------------------------------------------
(* Claims on Spec: the sheets of the stores *)

IsFormula(c) == "days" \in DOMAIN c \/ "price" \in DOMAIN c

\* the values of a sheet row, its formulas left aside
RowValues(row) == [k \in 1..Len(row) |-> IF IsFormula(row[k]) THEN Null ELSE row[k]]

\* the data rows of a formatted sheet, i.e. the rows below the header row
DataRowsOf(sheet) == SubSeq(sheet, HeaderRowNo + 1, Len(sheet))

\* Destination Store of record r of the master table; null when the table
\* has no such column
DestinationStoreOf(r) ==
    IF HasCol(output, DestinationStore) THEN Cell(output, output.rows[r], DestinationStore)
    ELSE Null

\* the store sheets that hold master row r
HoldersOf(r) ==
    {i \in 1..Len(workbook.sheets) :
        \E q \in 1..Len(DataRowsOf(workbook.sheets[i].rows)) :
           RowValues(DataRowsOf(workbook.sheets[i].rows)[q]) =
              RowValues(DataRowsOf(workbook.master)[r])}

\* C17: once every store has its sheet, the master sheet still holds every
\* record; a record with a Destination Store is in the sheet of that store
\* and in no other sheet; a record without one is in no store sheet; and a
\* store sheet holds as many rows as the master table has records of its
\* store.
C17_ExactPartition ==
    pc = "formatted" =>
       /\ Len(DataRowsOf(workbook.master)) = Len(output.rows)
       /\ \A r \in 1..Len(output.rows) :
             IF DestinationStoreOf(r) = Null THEN HoldersOf(r) = {}
             ELSE /\ HoldersOf(r) # {}
                  /\ \A i \in HoldersOf(r) : workbook.sheets[i].store = DestinationStoreOf(r)
       /\ \A i, j \in 1..Len(workbook.sheets) :
             i # j => workbook.sheets[i].store # workbook.sheets[j].store
       /\ \A i \in 1..Len(workbook.sheets) :
             Len(DataRowsOf(workbook.sheets[i].rows)) =
                Cardinality({r \in 1..Len(output.rows) :
                                DestinationStoreOf(r) = workbook.sheets[i].store})

----------------------------------------------------------------------------
(* Claims on Spec: the formulas *)

\* the cells a formula reads
ReadsOf(c) == IF "days" \in DOMAIN c THEN c.days ELSE c.price

\* the sheets of the final output: the Master sheet and the store sheets
FinalSheets == <<workbook.master>> \o [i \in 1..Len(workbook.sheets) |-> workbook.sheets[i].rows]

\* in data row r of the sheet, the cell under '# Days In Storage' is
\* (Storage Ends - Storage Starts) + 1 and the cell under 'Extended Price' is
\* (((Storage Charge * Square Footage) / 30) * Days In Storage) + 60, over
\* the cells of row r under those headers
LabelledFormulasOwnRow(sheet, r) ==
    LET col(name) == HeaderColumn(sheet[HeaderRowNo], name) IN
    /\ sheet[r][col(DaysInStorage)] =
          [days |-> <<<<col(StorageEnds), r>>, <<col(StorageStarts), r>>>>]
    /\ sheet[r][col(ExtendedPrice)] =
          [price |-> <<<<col(StorageCharge), r>>, <<col(s_SquareFootage), r>>,
                       <<col(DaysInStorage), r>>>>]

\* every formula of row r of the sheet reads cells of row r only
EveryFormulaOwnRow(sheet, r) ==
    \A k \in 1..Len(sheet[r]) :
       IsFormula(sheet[r][k]) =>
          \A j \in 1..Len(ReadsOf(sheet[r][k])) : ReadsOf(sheet[r][k])[j][2] = r

\* C18: in the final output, in every data row r of the Master sheet and
\* of every store sheet, the Days In Storage formula is (Storage Ends -
\* Storage Starts) + 1 and the Extended Price formula is (((Storage Charge *
\* Square Footage) / 30) * Days In Storage) + 60 over the cells of row r, and
\* no formula of the row reads a cell of another row.
C18_FormulasOwnRow ==
    pc = "formatted" =>
       \A s \in 1..Len(FinalSheets) :
          \A r \in (HeaderRowNo + 1)..Len(FinalSheets[s]) :
             /\ LabelledFormulasOwnRow(FinalSheets[s], r)
             /\ EveryFormulaOwnRow(FinalSheets[s], r)

----------------------------------------------------------------------------
(* Claims on Spec: the counters *)

\* process_folders is running or has run
Called == pc \notin {"idle", "start"}

\* the .xlsx entries of existing folders the loop has been through: process_file
\* has returned for them and lines 408-412 have run
Visited == {e \in XlsxEntries : EnumeratedBefore(e, <<folder_idx, file_idx>>)}

FrameSources == {frame_sources[i] : i \in 1..Len(frame_sources)}

\* C21: from the start of a process_folders call on, processed_files +
\* skipped_files is the number of .xlsx files of existing folders visited so
\* far, so that both counters are 0 before the first file whatever an earlier
\* call left in them; processed_files is the number of record sets
\* accumulated; and each visited file is counted once, as processed when it
\* is the source of a record set and as skipped when it is not.
C21_CounterInvariant ==
    Called =>
       /\ processed_files + skipped_files = Cardinality(Visited)
       /\ processed_files = Len(all_data_frames)
       /\ Len(frame_sources) = Len(all_data_frames)
       /\ FrameSources \subseteq Visited
       /\ processed_files = Cardinality(FrameSources)
       /\ skipped_files = Cardinality(Visited \ FrameSources)

\* the loop has counted a file as processed and another as skipped
C21_Witness ==
    /\ pc = "scan"
    /\ processed_files >= 1
    /\ skipped_files >= 1
    /\ Cardinality(Visited) = MaxFiles

====
